---- MODULE Spec2Model ----
(***************************************************************************)
(* The dual-mode circuit builder of circuit-construction/src/lib.rs.       *)
(*                                                                         *)
(* One user closure is run on two backends: System (circuit mode: hands    *)
(* out variable indices and collects GateSpecs) and WitnessGenerator       *)
(* (witness mode: evaluates thunks and collects rows of field values).     *)
(* The model runs the two in lock step: every closure action performs the  *)
(* same gadget call on `sys` and on `gen`, with the operands the closure   *)
(* holds in the respective run (`cvars` and `wvars`).  System::gates() is  *)
(* the Compile action.                                                     *)
(***************************************************************************)
EXTENDS Integers, Sequences, FiniteSets, TLC

VARIABLES
    pc,        \* "init" | "main" (closure running) | "compiled"
    public,    \* number of public inputs given to the drivers
    sys,       \* System { next_variable, gates } + history of builder calls
    gen,       \* WitnessGenerator { rows } + history of builder calls
    cvars,     \* the Vars the closure holds in the circuit run
    wvars,     \* the Vars the closure holds in the witness run
    prov,      \* per row: the gadget called by the closure that emitted it
    last,      \* the last gadget call of the closure: operands and result
    steps,     \* public inputs + closure calls so far
    compiled   \* result of System::gates(): Vec<CircuitGate>

vars == <<pc, public, sys, gen, cvars, wvars, prov, last, steps, compiled>>

---------------------------------------------------------------------------
(* Bounds of the model *)

\* public inputs plus gadget calls of the closure
MaxSteps == 3

\* the lengths in bits handed to endo, endo_scalar and scalar are 0 .. MaxBits
MaxBits == 5
\* the number of bits handed to assert_pack is 0 .. MaxPackBits
MaxPackBits == 16
\* the bits handed to assert_pack are those of an integer 0 .. MaxPacked
MaxPacked == 3

\* the Poseidon rows of one hash
MaxHashRows == 2

---------------------------------------------------------------------------
(* Program constants *)

COLUMNS == 15
PERMUTS == 7
GENERICS == 3
SINGLE_GENERIC_COEFFS == 5
GENERIC_ROW_COEFFS == 2 * SINGLE_GENERIC_COEFFS

---------------------------------------------------------------------------
(* The prime field F, here the integers modulo P *)

P == 5
F == 0 .. (P - 1)

\* Option<F>
None == <<>>
Some(x) == <<x>>

FAdd(a, b) == (a + b) % P
\* FSub without the reduction into the field
FSub_abs(a, b) == IF a >= b THEN a - b ELSE b - a
FSub(a, b) == (a + P - b) % P
FMul(a, b) == (a * b) % P
FNeg(a) == (P - a) % P
\* Field::inverse: None on zero
FInverse(a) == IF a = 0 THEN None ELSE Some(CHOOSE x \in 1 .. (P - 1) : (a * x) % P = 1)

\* the scalar field Fr of the curve, the integers modulo R
R == 7

\* arithmetic on values obtained by Var::val(), i.e. Option::unwrap: a None
\* operand makes the whole thunk fail, which is the result None
Lift(Op(_, _), a, b) == IF a = None \/ b = None THEN None ELSE Some(Op(a[1], b[1]))
OAdd(a, b) == Lift(FAdd, a, b)
OSub(a, b) == Lift(FSub, a, b)
OMul(a, b) == Lift(FMul, a, b)
\* OEq with the two branches exchanged
OEq_exchanged(a, b) == IF a = None \/ b = None THEN None ELSE Some(IF a[1] = b[1] THEN 0 ELSE 1)

\* a.inverse().unwrap(): the thunk panics on zero
OInverse(a) == IF a = None THEN None ELSE FInverse(a[1])
\* a.div(b), i.e. a * b.inverse().unwrap(): the thunk panics when b is zero
ODiv(a, b) == OMul(a, OInverse(b))

\* if a == b { F::one() } else { F::zero() }
OEq(a, b) == IF a = None \/ b = None THEN None ELSE Some(IF a[1] = b[1] THEN 1 ELSE 0)
\* a.inverse().unwrap_or(d)
OInverseOr(a, d) == IF a = None THEN None ELSE IF FInverse(a[1]) = None THEN Some(d) ELSE FInverse(a[1])

\* Var { index, value }
Var(i, v) == [index |-> i, value |-> v]
val(v) == v.value

---------------------------------------------------------------------------
(* The two backends of the trait Cs *)

curr_gate_count(b) == IF b.mode = "witness" THEN Len(b.rows) ELSE Len(b.gates)

Call(b, kind, index, invoked) ==
    [kind |-> kind, index |-> index, invoked |-> invoked, count |-> curr_gate_count(b)]

\* WitnessGenerator_var numbering the Vars it returns
WitnessGenerator_var_numbered(b, t) ==
    LET b1 == [b EXCEPT !.thunks = @ + 1, !.failed = @ \/ t = None]
    IN [b |-> [b1 EXCEPT !.calls = Append(@, Call(b1, "var", b.thunks, TRUE))],
        v |-> Var(b.thunks, t)]

\* WitnessGenerator::var: the thunk is run at once; its result t is None when
\* it failed
WitnessGenerator_var(b, t) ==
    LET b1 == [b EXCEPT !.thunks = @ + 1, !.failed = @ \/ t = None]
    IN [b |-> [b1 EXCEPT !.calls = Append(@, Call(b1, "var", 0, TRUE))],
        v |-> Var(0, t)]

\* System_var without the increment of next_variable
System_var_reuse(b, t) ==
    LET v == b.next_variable
    IN [b |-> [b EXCEPT !.calls = Append(@, Call(b, "var", v, FALSE))],
        v |-> Var(v, None)]

\* System_var skipping an index
System_var_skip(b, t) ==
    LET v == b.next_variable
        b1 == [b EXCEPT !.next_variable = @ + 2]
    IN [b |-> [b1 EXCEPT !.calls = Append(@, Call(b1, "var", v, FALSE))],
        v |-> Var(v, None)]

\* System_var running the thunk
System_var_eager(b, t) ==
    LET v == b.next_variable
        b1 == [b EXCEPT !.next_variable = @ + 1, !.thunks = @ + 1, !.failed = @ \/ t = None]
    IN [b |-> [b1 EXCEPT !.calls = Append(@, Call(b1, "var", v, TRUE))],
        v |-> Var(v, t)]

\* System::var: the thunk is dropped
System_var(b, t) ==
    LET v == b.next_variable
        b1 == [b EXCEPT !.next_variable = @ + 1]
    IN [b |-> [b1 EXCEPT !.calls = Append(@, Call(b1, "var", v, FALSE))],
        v |-> Var(v, None)]

var(b, t) == IF b.mode = "witness" THEN WitnessGenerator_var(b, t) ELSE System_var(b, t)

\* WitnessGenerator_gate dropping the row
WitnessGenerator_gate_drop(b, g) ==
    IF \E i \in 1 .. COLUMNS : g.row[i].value = None
    THEN [b EXCEPT !.failed = TRUE]
    ELSE [b EXCEPT !.calls = Append(@, Call(b, "gate", Len(b.rows), FALSE))]

\* WitnessGenerator::gate: push the row of values; unwrap of a None fails
WitnessGenerator_gate(b, g) ==
    IF \E i \in 1 .. COLUMNS : g.row[i].value = None
    THEN [b EXCEPT !.failed = TRUE]
    ELSE LET b1 == [b EXCEPT !.rows = Append(@, [i \in 1 .. COLUMNS |-> g.row[i].value[1]])]
         IN [b1 EXCEPT !.calls = Append(@, Call(b1, "gate", Len(b.rows), FALSE))]

\* System::gate: push the GateSpec
System_gate(b, g) ==
    LET b1 == [b EXCEPT !.gates = Append(@, g)]
    IN [b1 EXCEPT !.calls = Append(@, Call(b1, "gate", Len(b.gates), FALSE))]

gate(b, g) == IF b.mode = "witness" THEN WitnessGenerator_gate(b, g) ELSE System_gate(b, g)

GateSpec(typ, row, coeffs) == [typ |-> typ, row |-> row, coeffs |-> coeffs]

\* vec![F::zero(); GENERIC_ROW_COEFFS] with the entries of `set` (0-based) assigned
coeffs_vec(set) ==
    [i \in 1 .. GENERIC_ROW_COEFFS |-> IF (i - 1) \in DOMAIN set THEN set[i - 1] ELSE 0]

\* a call that panicked returns nothing: the run is over
bail(b) == [b |-> b, v |-> Var(0, None), vs |-> <<>>]

\* fresh with one self.var whose Var fills all n cells
fresh_repeated(b, n, t) ==
    IF n = 0 THEN [b |-> b, vs |-> <<>>]
    ELSE IF var(b, t).b.failed THEN bail(var(b, t).b)
    ELSE [b |-> var(b, t).b, vs |-> [i \in 1 .. n |-> var(b, t).v]]

\* n successive self.var(thunk) of an array_init, the thunk resulting in t;
\* a thunk that panics ends the run there
RECURSIVE fresh(_, _, _)
fresh(b, n, t) ==
    IF n = 0 THEN [b |-> b, vs |-> <<>>]
    ELSE LET s == var(b, t)
         IN IF s.b.failed THEN bail(s.b)
            ELSE LET r == fresh(s.b, n - 1, t)
                 IN [b |-> r.b, vs |-> <<s.v>> \o r.vs]

\* n successive self.var(|| F::zero()), the filler cells of a row
zeros(b, n) == fresh(b, n, Some(0))

---------------------------------------------------------------------------
(* The generic-gate gadgets of the trait Cs.  A gadget returns the builder *)
(* after the call (b) and the Var it returns (v).  A panic (b.failed) ends *)
(* the call where it happens.                                              *)

\* | x1 | x2 | 0 | ...    constrain x1 - x2 = 0
assert_eq(b, x1, x2) ==
    LET z == zeros(b, COLUMNS - 2)
        coeffs == coeffs_vec((0 :> 1) @@ (1 :> FNeg(1)))
    IN IF z.b.failed THEN bail(z.b)
       ELSE [b |-> gate(z.b, GateSpec("Generic", <<x1, x2>> \o z.vs, coeffs)), v |-> Var(0, None)]

\* the row | x1 | x2 | res | 0 ... | of and, or, add, sub with its coefficients
generic_row(res, x1, x2, coeffs) ==
    IF res.b.failed THEN bail(res.b)
    ELSE LET z == zeros(res.b, COLUMNS - 3)
         IN IF z.b.failed THEN bail(z.b)
            ELSE [b |-> gate(z.b, GateSpec("Generic", <<x1, x2, res.v>> \o z.vs, coeffs)),
                  v |-> res.v]

and(b, x1, x2) ==
    generic_row(var(b, OMul(val(x1), val(x2))), x1, x2,
                coeffs_vec((0 :> 1) @@ (1 :> 1) @@ (2 :> FNeg(2))))

\* or with the product left out of the witness value
or_sum(b, x1, x2) ==
    generic_row(var(b, OAdd(val(x1), val(x2))), x1, x2,
                coeffs_vec((0 :> 1) @@ (1 :> 1) @@ (2 :> FNeg(1)) @@ (3 :> FNeg(1))))

or(b, x1, x2) ==
    generic_row(var(b, OSub(OAdd(val(x1), val(x2)), OMul(val(x1), val(x2)))), x1, x2,
                coeffs_vec((0 :> 1) @@ (1 :> 1) @@ (2 :> FNeg(1)) @@ (3 :> FNeg(1))))

add(b, x1, x2) ==
    generic_row(var(b, OAdd(val(x1), val(x2))), x1, x2,
                coeffs_vec((0 :> 1) @@ (1 :> 1) @@ (2 :> FNeg(1))))

\* sub with the sign of the second operand's coefficient lost
sub_sign(b, x1, x2) ==
    generic_row(var(b, OSub(val(x1), val(x2))), x1, x2,
                coeffs_vec((0 :> 1) @@ (1 :> 1) @@ (2 :> FNeg(1))))

sub(b, x1, x2) ==
    generic_row(var(b, OSub(val(x1), val(x2))), x1, x2,
                coeffs_vec((0 :> 1) @@ (1 :> FNeg(1)) @@ (2 :> FNeg(1))))

\* constant without the constant term of its constraint
constant_unpinned(b, x) ==
    LET v == var(b, Some(x))
        c == coeffs_vec((0 :> 1))
    IN IF v.b.failed THEN bail(v.b)
       ELSE LET z == zeros(v.b, COLUMNS - 1)
            IN IF z.b.failed THEN bail(z.b)
               ELSE [b |-> gate(z.b, GateSpec("Generic", <<v.v>> \o z.vs, c)), v |-> v.v]

\* c[0] = 1, c[GENERICS + 1] = -x
constant(b, x) ==
    LET v == var(b, Some(x))
        c == coeffs_vec((0 :> 1) @@ ((GENERICS + 1) :> FNeg(x)))
    IN IF v.b.failed THEN bail(v.b)
       ELSE LET z == zeros(v.b, COLUMNS - 1)
            IN IF z.b.failed THEN bail(z.b)
               ELSE [b |-> gate(z.b, GateSpec("Generic", <<v.v>> \o z.vs, c)), v |-> v.v]

\* a row filled with COLUMNS fresh cells whose first cells are then
\* overwritten with `cells`
overwritten_row(b, cells, coeffs) ==
    LET z == zeros(b, COLUMNS)
    IN IF z.b.failed THEN z.b
       ELSE gate(z.b, GateSpec("Generic", cells \o SubSeq(z.vs, Len(cells) + 1, COLUMNS), coeffs))

scale(b, x, v) ==
    LET xv == var(b, OMul(val(v), Some(x)))
    IN IF xv.b.failed THEN bail(xv.b)
       ELSE [b |-> overwritten_row(xv.b, <<v, xv.v>>, coeffs_vec((0 :> x) @@ (1 :> FNeg(1)))),
             v |-> xv.v]

\* A gadget body with several statements: the builder and the Vars bound so
\* far (e[1], e[2], ... in the order of binding).  A panic ends the body.
body(b) == [b |-> b, e |-> <<>>]

\* let x = self.var(|| thunk), the thunk reading the Vars bound so far
let_var(m, thunk(_)) ==
    IF m.b.failed THEN m
    ELSE LET r == var(m.b, thunk(m.e)) IN [b |-> r.b, e |-> Append(m.e, r.v)]

\* let x = self.gadget(..)
let_call(m, gadget(_, _)) ==
    IF m.b.failed THEN m
    ELSE LET r == gadget(m.b, m.e) IN [b |-> r.b, e |-> Append(m.e, r.v)]

\* self.gate of a Generic row made by array_init: `cells`, then fresh zero cells
gate_row(m, cells(_), coeffs) ==
    IF m.b.failed THEN m
    ELSE LET z == zeros(m.b, COLUMNS - Len(cells(m.e)))
         IN IF z.b.failed THEN [m EXCEPT !.b = z.b]
            ELSE [m EXCEPT !.b = gate(z.b, GateSpec("Generic", cells(m.e) \o z.vs, coeffs))]

\* self.gate of a Generic row filled with COLUMNS fresh zero cells whose first
\* cells are then overwritten with `cells`
gate_overwritten_row(m, cells(_), coeffs) ==
    IF m.b.failed THEN m ELSE [m EXCEPT !.b = overwritten_row(m.b, cells(m.e), coeffs)]

\* the body returns the k-th Var it bound
return(m, k) == IF m.b.failed THEN bail(m.b) ELSE [b |-> m.b, v |-> m.e[k]]

\* e[1] = diff, e[2] = inv, e[3] = inv2, e[4] = res.  The second row is
\* pushed with the three-entry vector vec![one, -one, one], not with the
\* vector `coeffs` built before it.
equals_old(b, x1, x2) ==
    LET m1 == let_call(body(b), LAMBDA bb, e : sub(bb, x2, x1))
        m2 == let_var(m1, LAMBDA e : OInverseOr(val(e[1]), 1))
        m3 == let_var(m2, LAMBDA e : OInverseOr(val(e[2]), 1))
        m4 == let_var(m3, LAMBDA e : OEq(val(x1), val(x2)))
        m5 == gate_row(m4, LAMBDA e : <<e[2], e[3]>>, coeffs_vec((1 :> FNeg(1)) @@ (2 :> 1)))
        m6 == gate_row(m5, LAMBDA e : <<x1, x2, e[1]>>, <<1, FNeg(1), 1>>)
        m7 == gate_row(m6, LAMBDA e : <<e[1], e[2], e[4]>>, coeffs_vec((2 :> 1) @@ (3 :> FNeg(1))))
    IN return(m7, 4)

\* equals without its last row, res * z = 0
equals_two(b, x1, x2) ==
    LET m1 == let_call(body(b), LAMBDA bb, e : sub(bb, x2, x1))
        m2 == let_var(m1, LAMBDA e : OInverseOr(val(e[1]), 0))
        m3 == let_var(m2, LAMBDA e : OEq(val(x1), val(x2)))
        m4 == let_var(m3, LAMBDA e : OSub(Some(1), val(e[3])))
        m5 == let_call(m4, LAMBDA bb, e : constant(bb, 1))
        m6 == gate_row(m5, LAMBDA e : <<e[5], e[3], e[4]>>,
                       coeffs_vec((0 :> 1) @@ (1 :> FNeg(1)) @@ (2 :> FNeg(1))))
        m7 == gate_row(m6, LAMBDA e : <<e[2], e[1], e[4]>>,
                       coeffs_vec((2 :> FNeg(1)) @@ (3 :> 1)))
    IN return(m7, 3)

\* z = x2 - x1, z_inv = z^-1 (or 0), z_inv * z = 1 - res, res * z = 0
\* e[1] = diff, e[2] = inv, e[3] = res, e[4] = one_minus_res,
\* e[5] = self.constant(F::one()), called for cell 0 of the first row
equals(b, x1, x2) ==
    LET m1 == let_call(body(b), LAMBDA bb, e : sub(bb, x2, x1))
        m2 == let_var(m1, LAMBDA e : OInverseOr(val(e[1]), 0))
        m3 == let_var(m2, LAMBDA e : OEq(val(x1), val(x2)))
        m4 == let_var(m3, LAMBDA e : OSub(Some(1), val(e[3])))
        m5 == let_call(m4, LAMBDA bb, e : constant(bb, 1))
        \* 1 - res - one_minus_res = 0
        m6 == gate_row(m5, LAMBDA e : <<e[5], e[3], e[4]>>,
                       coeffs_vec((0 :> 1) @@ (1 :> FNeg(1)) @@ (2 :> FNeg(1))))
        \* inv * diff - one_minus_res = 0
        m7 == gate_row(m6, LAMBDA e : <<e[2], e[1], e[4]>>,
                       coeffs_vec((2 :> FNeg(1)) @@ (3 :> 1)))
        \* res * diff = 0
        m8 == gate_row(m7, LAMBDA e : <<e[3], e[1]>>, coeffs_vec((3 :> 1)))
    IN return(m8, 3)

\* cond_select with the result built on t instead of f
cond_select_on_t(b, bv, t, f) ==
    LET m1 == let_var(body(b), LAMBDA e : OSub(val(t), val(f)))
        m2 == let_var(m1, LAMBDA e : OMul(val(bv), val(e[1])))
        m3 == let_var(m2, LAMBDA e : OAdd(val(t), val(e[2])))
        m4 == gate_overwritten_row(m3, LAMBDA e : <<t, f, e[1]>>,
                  coeffs_vec((0 :> 1) @@ (1 :> FNeg(1)) @@ (2 :> FNeg(1))))
        m5 == gate_overwritten_row(m4, LAMBDA e : <<bv, e[1], e[2]>>,
                  coeffs_vec((0 :> 0) @@ (1 :> 0) @@ (2 :> FNeg(1)) @@ (3 :> 1)))
        m6 == gate_overwritten_row(m5, LAMBDA e : <<e[2], f, e[3]>>,
                  coeffs_vec((0 :> 1) @@ (1 :> 1) @@ (2 :> FNeg(1))))
    IN return(m6, 3)

\* delta = t - f, res1 = b * delta, res = res1 + f
\* e[1] = delta, e[2] = res1, e[3] = res
cond_select(b, bv, t, f) ==
    LET m1 == let_var(body(b), LAMBDA e : OSub(val(t), val(f)))
        m2 == let_var(m1, LAMBDA e : OMul(val(bv), val(e[1])))
        m3 == let_var(m2, LAMBDA e : OAdd(val(f), val(e[2])))
        m4 == gate_overwritten_row(m3, LAMBDA e : <<t, f, e[1]>>,
                  coeffs_vec((0 :> 1) @@ (1 :> FNeg(1)) @@ (2 :> FNeg(1))))
        m5 == gate_overwritten_row(m4, LAMBDA e : <<bv, e[1], e[2]>>,
                  coeffs_vec((0 :> 0) @@ (1 :> 0) @@ (2 :> FNeg(1)) @@ (3 :> 1)))
        m6 == gate_overwritten_row(m5, LAMBDA e : <<e[2], f, e[3]>>,
                  coeffs_vec((0 :> 1) @@ (1 :> 1) @@ (2 :> FNeg(1))))
    IN return(m6, 3)

---------------------------------------------------------------------------
(* The curve gadgets.  They return the builder (b) and the Vars of the     *)
(* point (vs).                                                             *)

\* self.gate of a row written out cell by cell
gate_cells(m, typ, cells(_), coeffs) ==
    IF m.b.failed THEN m ELSE [m EXCEPT !.b = gate(m.b, GateSpec(typ, cells(m.e), coeffs))]

\* the body returns the Vars it bound at the positions ks
return_all(m, ks) ==
    IF m.b.failed THEN bail(m.b)
    ELSE [b |-> m.b, v |-> m.e[ks[1]], vs |-> [i \in 1 .. Len(ks) |-> m.e[ks[i]]]]

\* F::from(same_x as u64) with same_x = x1.val() == x2.val()
same_x_thunk(x1, x2) == OEq(val(x1), val(x2))

\* the flag same_x_bool the first thunk of add_group leaves behind
same_x_bool(same_x) == val(same_x) = Some(1)

x21_inv_thunk(x1, x2) ==
    IF val(x1) = None \/ val(x2) = None THEN None
    ELSE IF val(x1) = val(x2) THEN Some(0)
    ELSE OInverse(OSub(val(x2), val(x1)))

\* s_thunk with the tangent slope 2 x1^2 / (2 y1)
s_thunk_twice(same_x, x1, y1, y2, x21_inv) ==
    IF same_x_bool(same_x)
    THEN LET x1_squared == OMul(val(x1), val(x1))
         IN ODiv(OAdd(x1_squared, x1_squared), OAdd(val(y1), val(y1)))
    ELSE OMul(OSub(val(y2), val(y1)), val(x21_inv))

\* the slope: of the tangent when the abscissas are equal, else of the chord
s_thunk(same_x, x1, y1, y2, x21_inv) ==
    IF same_x_bool(same_x)
    THEN LET x1_squared == OMul(val(x1), val(x1))
         IN ODiv(OAdd(OAdd(x1_squared, x1_squared), x1_squared), OAdd(val(y1), val(y1)))
    ELSE OMul(OSub(val(y2), val(y1)), val(x21_inv))

inf_z_thunk(same_x, y1, y2) ==
    IF val(y1) = None \/ val(y2) = None THEN None
    ELSE IF val(y1) = val(y2) THEN Some(0)
    ELSE IF same_x_bool(same_x) THEN OInverse(OSub(val(y2), val(y1)))
    ELSE Some(0)

x3_thunk(s, x1, x2) == OSub(OMul(val(s), val(s)), OAdd(val(x1), val(x2)))

\* y3_thunk with y1 added
y3_thunk_plus(s, x1, x3, y1) == OAdd(OMul(val(s), OSub(val(x1), val(x3))), val(y1))

y3_thunk(s, x1, x3, y1) == OSub(OMul(val(s), OSub(val(x1), val(x3))), val(y1))

\* e[1] = same_x, e[2] = x21_inv, e[3] = s, e[4] = inf_z, e[5] = x3, e[6] = y3
add_group(b, zero, x1, y1, x2, y2) ==
    LET m1 == let_var(body(b), LAMBDA e : same_x_thunk(x1, x2))
        m2 == let_var(m1, LAMBDA e : x21_inv_thunk(x1, x2))
        m3 == let_var(m2, LAMBDA e : s_thunk(e[1], x1, y1, y2, e[2]))
        m4 == let_var(m3, LAMBDA e : inf_z_thunk(e[1], y1, y2))
        m5 == let_var(m4, LAMBDA e : x3_thunk(e[3], x1, x2))
        m6 == let_var(m5, LAMBDA e : y3_thunk(e[3], x1, e[5], y1))
        m7 == gate_cells(m6, "CompleteAdd",
                  LAMBDA e : <<x1, y1, x2, y2, e[5], e[6], zero, e[1], e[3], e[4], e[2],
                               zero, zero, zero, zero>>,
                  <<>>)
    IN return_all(m7, <<5, 6>>)

double(b, zero, x1, y1) == add_group(b, zero, x1, y1, x1, y1)

\* assert_add_group with the sum's coordinates placed in exchanged cells
assert_add_group_exchanged(b, zero, x1, y1, x2, y2, x3, y3) ==
    LET m1 == let_var(body(b), LAMBDA e : same_x_thunk(x1, x2))
        m2 == let_var(m1, LAMBDA e : x21_inv_thunk(x1, x2))
        m3 == let_var(m2, LAMBDA e : s_thunk(e[1], x1, y1, y2, e[2]))
        m4 == let_var(m3, LAMBDA e : inf_z_thunk(e[1], y1, y2))
        m5 == gate_cells(m4, "CompleteAdd",
                  LAMBDA e : <<x1, y1, x2, y2, y3, x3, zero, e[1], e[3], e[4], e[2],
                               zero, zero, zero, zero>>,
                  <<>>)
    IN [b |-> m5.b]

\* the row of add_group with the caller's x3 and y3; nothing is returned
\* e[1] = same_x, e[2] = x21_inv, e[3] = s, e[4] = inf_z
assert_add_group(b, zero, x1, y1, x2, y2, x3, y3) ==
    LET m1 == let_var(body(b), LAMBDA e : same_x_thunk(x1, x2))
        m2 == let_var(m1, LAMBDA e : x21_inv_thunk(x1, x2))
        m3 == let_var(m2, LAMBDA e : s_thunk(e[1], x1, y1, y2, e[2]))
        m4 == let_var(m3, LAMBDA e : inf_z_thunk(e[1], y1, y2))
        m5 == gate_cells(m4, "CompleteAdd",
                  LAMBDA e : <<x1, y1, x2, y2, x3, y3, zero, e[1], e[3], e[4], e[2],
                               zero, zero, zero, zero>>,
                  <<>>)
    IN [b |-> m5.b]

---------------------------------------------------------------------------
(* endo: scalar multiplication by the endomorphism, four bits per row.  A   *)
(* failed assert_eq! panics: the call ends there.                          *)

panic(b) == bail([b EXCEPT !.failed = TRUE])

\* let (x, y) = self.gadget(..): both Vars are bound
bind_pair(m, r) == IF r.b.failed THEN [m EXCEPT !.b = r.b] ELSE [b |-> r.b, e |-> m.e \o r.vs]
let_pair(m, gadget(_, _)) == IF m.b.failed THEN m ELSE bind_pair(m, gadget(m.b, m.e))

\* F::from(bits_[i] as u64), bits_ being the length_in_bits low bits of the
\* scalar, the most significant first
bit_thunk(scalar, length_in_bits, i) ==
    IF val(scalar) = None THEN None
    ELSE Some((val(scalar)[1] \div (2 ^ (length_in_bits - 1 - i))) % 2)

\* the Vars bits[i], bits[i + 1], ..
RECURSIVE endo_bits(_, _, _, _)
endo_bits(m, scalar, length_in_bits, i) ==
    IF m.b.failed \/ i >= length_in_bits THEN m
    ELSE endo_bits(let_var(m, LAMBDA e : bit_thunk(scalar, length_in_bits, i)),
                   scalar, length_in_bits, i + 1)

\* the loop state of endo: the builder, the bits, acc and n_acc
endo_state(m, zero) ==
    IF m.b.failed THEN [b |-> m.b, bits |-> <<>>, acc |-> <<>>, n_acc |-> zero]
    ELSE [b |-> m.b, bits |-> SubSeq(m.e, 1, Len(m.e) - 5),
          acc |-> <<m.e[Len(m.e) - 1], m.e[Len(m.e)]>>, n_acc |-> zero]

\* let mut acc = { phip = (scale(endo, xt), yt); double(add_group(phip, (xt, yt))) };
\* let mut n_acc = zero.  m.e holds the bits, then phip.0, phip_p and acc.
endo_acc(m, zero, constants_endo, xt, yt) ==
    LET m1 == let_call(m, LAMBDA bb, e : scale(bb, constants_endo, xt))
        m2 == let_pair(m1, LAMBDA bb, e : add_group(bb, zero, e[Len(e)], yt, xt, yt))
        m3 == let_pair(m2, LAMBDA bb, e : double(bb, zero, e[Len(e) - 1], e[Len(e)]))
    IN endo_state(m3, zero)

\* (one + (endo - one) * b.val()) * xt.val()
xq_thunk(constants_endo, b, xt) ==
    OMul(OAdd(Some(1), OMul(Some(FSub(constants_endo, 1)), val(b))), val(xt))

\* (b.val().double() - one) * yt.val()
yq_thunk(b, yt) == OMul(OSub(OAdd(val(b), val(b)), Some(1)), val(yt))

\* (yq.val() - yp.val()) / (xq.val() - xp.val())
s1_thunk(yq, yp, xq, xp) == ODiv(OSub(val(yq), val(yp)), OSub(val(xq), val(xp)))

\* yp.val().double() / (xp.val().double() + xq.val() - s1_squared.val()) - s1.val()
s2_thunk(yp, xp, xq, s1_squared, s1) ==
    OSub(ODiv(OAdd(val(yp), val(yp)),
              OSub(OAdd(OAdd(val(xp), val(xp)), val(xq)), val(s1_squared))),
         val(s1))

\* xq.val() + s2.val().square() - s1_squared.val()
xr_thunk(xq, s2, s1_squared) == OSub(OAdd(val(xq), OMul(val(s2), val(s2))), val(s1_squared))

\* (xp.val() - xr.val()) * s2.val() - yp.val()
yr_thunk(xp, xr, s2, yp) == OSub(OMul(OSub(val(xp), val(xr)), val(s2)), val(yp))

\* n_acc_thunk without the last doubling
n_acc_thunk_short(n_acc, b1, b2, b3, b4) ==
    LET d1 == OAdd(OAdd(val(n_acc), val(n_acc)), val(b1))
        d2 == OAdd(OAdd(d1, d1), val(b2))
    IN OAdd(OAdd(OAdd(d2, d2), val(b3)), val(b4))

\* n_acc doubled and increased by b1, b2, b3, b4 in turn
n_acc_thunk(n_acc, b1, b2, b3, b4) ==
    LET d1 == OAdd(OAdd(val(n_acc), val(n_acc)), val(b1))
        d2 == OAdd(OAdd(d1, d1), val(b2))
        d3 == OAdd(OAdd(d2, d2), val(b3))
    IN OAdd(OAdd(d3, d3), val(b4))

\* the loop state after an iteration whose body bound m.e
endo_next(st, m) ==
    IF m.b.failed THEN [st EXCEPT !.b = m.b]
    ELSE [st EXCEPT !.b = m.b, !.acc = <<m.e[13], m.e[14]>>, !.n_acc = m.e[15]]

\* iteration i of the loop of endo.  e[1] = xq1, e[2] = yq1, e[3] = s1,
\* e[4] = s1_squared, e[5] = s2, e[6] = xr, e[7] = yr, e[8] = xq2, e[9] = yq2,
\* e[10] = s3, e[11] = s3_squared, e[12] = s4, e[13] = xs, e[14] = ys,
\* e[15] = n_acc
endo_row(st, zero, constants_endo, xt, yt, i) ==
    LET m1 == let_var(body(st.b), LAMBDA e : xq_thunk(constants_endo, st.bits[4 * i + 1], xt))
        m2 == let_var(m1, LAMBDA e : yq_thunk(st.bits[4 * i + 2], yt))
        m3 == let_var(m2, LAMBDA e : s1_thunk(e[2], st.acc[2], e[1], st.acc[1]))
        m4 == let_var(m3, LAMBDA e : OMul(val(e[3]), val(e[3])))
        m5 == let_var(m4, LAMBDA e : s2_thunk(st.acc[2], st.acc[1], e[1], e[4], e[3]))
        m6 == let_var(m5, LAMBDA e : xr_thunk(e[1], e[5], e[4]))
        m7 == let_var(m6, LAMBDA e : yr_thunk(st.acc[1], e[6], e[5], st.acc[2]))
        m8 == let_var(m7, LAMBDA e : xq_thunk(constants_endo, st.bits[4 * i + 3], xt))
        m9 == let_var(m8, LAMBDA e : yq_thunk(st.bits[4 * i + 4], yt))
        m10 == let_var(m9, LAMBDA e : s1_thunk(e[9], e[7], e[8], e[6]))
        m11 == let_var(m10, LAMBDA e : OMul(val(e[10]), val(e[10])))
        m12 == let_var(m11, LAMBDA e : s2_thunk(e[7], e[6], e[8], e[11], e[10]))
        m13 == let_var(m12, LAMBDA e : xr_thunk(e[8], e[12], e[11]))
        m14 == let_var(m13, LAMBDA e : yr_thunk(e[6], e[13], e[12], e[7]))
        m15 == gate_cells(m14, "EndoMul",
                   LAMBDA e : <<xt, yt, zero, zero, st.acc[1], st.acc[2], st.n_acc, e[6], e[7],
                                e[3], e[10], st.bits[4 * i + 1], st.bits[4 * i + 2],
                                st.bits[4 * i + 3], st.bits[4 * i + 4]>>,
                   <<>>)
        m16 == let_var(m15, LAMBDA e : n_acc_thunk(st.n_acc, st.bits[4 * i + 1],
                                                   st.bits[4 * i + 2], st.bits[4 * i + 3],
                                                   st.bits[4 * i + 4]))
    IN endo_next(st, m16)

\* for i in 0..rows
RECURSIVE endo_rows(_, _, _, _, _, _, _)
endo_rows(st, zero, constants_endo, xt, yt, i, rows) ==
    IF st.b.failed \/ i >= rows THEN st
    ELSE endo_rows(endo_row(st, zero, constants_endo, xt, yt, i),
                   zero, constants_endo, xt, yt, i + 1, rows)

\* the closing Zero row; acc is returned
endo_final(st, zero, scalar) ==
    IF st.b.failed THEN bail(st.b)
    ELSE [b |-> gate(st.b, GateSpec("Zero",
                     <<zero, zero, zero, zero, st.acc[1], st.acc[2], scalar, zero, zero,
                       zero, zero, zero, zero, zero, zero>>, <<>>)),
          v |-> st.acc[1], vs |-> st.acc]

\* endo allocating its bits before it checks the length
endo_late(b, zero, constants_endo, xt, yt, scalar, length_in_bits) ==
    IF length_in_bits % 4 # 0
    THEN panic(endo_bits(body(b), scalar, length_in_bits, 0).b)
    ELSE endo_final(endo_rows(endo_acc(endo_bits(body(b), scalar, length_in_bits, 0),
                                       zero, constants_endo, xt, yt),
                              zero, constants_endo, xt, yt, 0, length_in_bits \div 4),
                    zero, scalar)

endo(b, zero, constants_endo, xt, yt, scalar, length_in_bits) ==
    IF length_in_bits % 4 # 0 THEN panic(b)
    ELSE endo_final(endo_rows(endo_acc(endo_bits(body(b), scalar, length_in_bits, 0),
                                       zero, constants_endo, xt, yt),
                              zero, constants_endo, xt, yt, 0, length_in_bits \div 4),
                    zero, scalar)

---------------------------------------------------------------------------
(* The other gadgets with a precondition on the shape of their input       *)

\* F::from_repr(F::BigInt::from_bits_le(&bits)).unwrap(): the integer n as a
\* field element, a panic when n is not below the modulus
from_repr(n) == IF n < P THEN Some(n) ELSE None

\* endo_scalar allocating before it checks the length
endo_scalar_late(b, length, y) ==
    LET r == var(b, from_repr(y))
    IN IF length % 4 # 0 THEN panic(r.b) ELSE [b |-> r.b, v |-> r.v]

\* y is the integer the closure g returns
endo_scalar(b, length, y) ==
    IF length % 4 # 0 THEN panic(b)
    ELSE LET r == var(b, from_repr(y)) IN [b |-> r.b, v |-> r.v]

\* y = (x - shift) / two in Fr with shift = 1 + 2^length
scalar_thunk(length, x) ==
    LET two == 2 % R
        shift == (1 + 2 ^ length) % R
        two_inv == CHOOSE i \in 1 .. (R - 1) : (two * i) % R = 1
    IN from_repr((((x + R - shift) % R) * two_inv) % R)

\* x is the element of Fr the closure g returns
scalar(b, length, x) ==
    IF length % 5 # 0 THEN panic(b)
    ELSE LET r == var(b, scalar_thunk(length, x)) IN [b |-> r.b, v |-> r.v]

\* x.double() + (if b0.val().is_one() { one } else { neg_one })
double_signed(x, b0) ==
    IF x = None \/ b0 = None THEN None
    ELSE OAdd(OAdd(x, x), Some(IF b0[1] = 1 THEN 1 ELSE FNeg(1)))

\* the thunk of a in assert_pack
pack_a_thunk(a, b0, b1) ==
    IF b1 = None THEN None
    ELSE IF b1[1] = 0 THEN OAdd(a, a) ELSE double_signed(a, b0)

\* the thunk of b in assert_pack
pack_b_thunk(bb, b0, b1) ==
    IF b1 = None THEN None
    ELSE IF b1[1] = 0 THEN double_signed(bb, b0) ELSE OAdd(bb, bb)

\* one crumb of assert_pack: crumb_bits = <<b1, b0>>; c.vs = <<a, b, n>>
\* e[1] = crumb, e[2] = a, e[3] = b, e[4] = n
pack_crumb(c, b1, b0) ==
    LET m1 == let_var(body(c.b), LAMBDA e : OAdd(val(b0), OAdd(val(b1), val(b1))))
        m2 == let_var(m1, LAMBDA e : pack_a_thunk(val(c.vs[1]), val(b0), val(b1)))
        m3 == let_var(m2, LAMBDA e : pack_b_thunk(val(c.vs[2]), val(b0), val(b1)))
        m4 == let_var(m3, LAMBDA e : OAdd(OAdd(OAdd(val(c.vs[3]), val(c.vs[3])),
                                                OAdd(val(c.vs[3]), val(c.vs[3]))),
                                           val(e[1])))
    IN return_all(m4, <<2, 3, 4>>)

\* the crumbs j, j + 1, .. of a row
RECURSIVE pack_crumbs(_, _, _)
pack_crumbs(c, row_bits, j) ==
    IF c.b.failed \/ 2 * j >= Len(row_bits) THEN c
    ELSE pack_crumbs(pack_crumb(c, row_bits[2 * j + 1], row_bits[2 * j + 2]), row_bits, j + 1)

\* let mut row: [Var<F>; COLUMNS] = array_init(|_| self.var(|| F::zero()))
pack_row_cells(c) == [c EXCEPT !.b = zeros(c.b, COLUMNS).b]

\* row[14] = self.var(|| F::zero())
pack_last_cell(c) == IF c.b.failed THEN c ELSE [c EXCEPT !.b = var(c.b, Some(0)).b]

\* the rows i, i + 1, .. of assert_pack.  Each iteration fills a local array
\* `row` (COLUMNS fresh cells, then n, a, b, the crumbs, x or n, a, b and
\* one more fresh cell) and drops it: there is no self.gate in the loop.
RECURSIVE pack_rows(_, _, _)
pack_rows(c, bits_msb, i) ==
    IF c.b.failed \/ 16 * i >= Len(bits_msb) THEN c
    ELSE pack_rows(pack_last_cell(pack_crumbs(pack_row_cells(c),
                                              SubSeq(bits_msb, 16 * i + 1, 16 * i + 16), 0)),
                   bits_msb, i + 1)

\* let mut a = self.var(|| 2); let mut b = self.var(|| 2); let mut n = zero
pack_start(m, zero) == [b |-> m.b, v |-> Var(0, None), vs |-> <<m.e[1], m.e[2], zero>>]

\* iter().rev().collect()
rev(s) == [i \in 1 .. Len(s) |-> s[Len(s) + 1 - i]]

assert_pack(b, zero, x, bits_lsb) ==
    IF Len(bits_lsb) % 16 # 0 THEN panic(b)
    ELSE pack_rows(pack_start(let_var(let_var(body(b), LAMBDA e : Some(2 % P)),
                                      LAMBDA e : Some(2 % P)), zero),
                   rev(bits_lsb), 0)

---------------------------------------------------------------------------
(* poseidon: the permutation, ROUNDS_PER_ROW full rounds per Poseidon row. *)
(* The sponge parameters (constants.poseidon) are a record with the fields *)
(* round_constants (one row of SPONGE_WIDTH constants per round), mds and  *)
(* alpha.  st is the builder (b) and the vector `states`.                  *)

SPONGE_WIDTH == 3
ROUNDS_PER_ROW == 4
POS_ROWS_PER_HASH == MaxHashRows

\* x^n in the field
RECURSIVE FPow(_, _)
FPow(x, n) == IF n = 0 THEN 1 ELSE FMul(x, FPow(x, n - 1))

\* permutation::full_round: state <- MDS * (state + round constant)^alpha;
\* indexing the round constants past their end panics (None)
full_round(params, state, r) ==
    IF r >= Len(params.round_constants) THEN None
    ELSE LET t == [m \in 1 .. SPONGE_WIDTH |->
                     FPow(FAdd(state[m], params.round_constants[r + 1][m]), params.alpha)]
         IN Some([k \in 1 .. SPONGE_WIDTH |->
                     FAdd(FAdd(FMul(params.mds[k][1], t[1]), FMul(params.mds[k][2], t[2])),
                          FMul(params.mds[k][3], t[3]))])

\* the closure of poseidon's self.var: one full round on the previous state,
\* of which the cell `col` is kept
round_thunk(params, prev, r, col) ==
    IF \E m \in 1 .. Len(prev) : val(prev[m]) = None THEN None
    ELSE LET acc == full_round(params, [m \in 1 .. Len(prev) |-> val(prev[m])[1]], r)
         IN IF acc = None THEN None ELSE Some(acc[1][col + 1])

\* states.push(..)
push_state(st, m) == [b |-> m.b, states |-> IF m.b.failed THEN st.states ELSE Append(st.states, m.e)]

\* the three self.var of one round
poseidon_round(st, params, r) ==
    IF st.b.failed THEN st
    ELSE push_state(st,
           let_var(let_var(let_var(body(st.b),
                   LAMBDA e : round_thunk(params, st.states[Len(st.states)], r, 0)),
                   LAMBDA e : round_thunk(params, st.states[Len(st.states)], r, 1)),
                   LAMBDA e : round_thunk(params, st.states[Len(st.states)], r, 2)))

\* for i in 0..ROUNDS_PER_ROW, from i on
RECURSIVE poseidon_rounds(_, _, _, _)
poseidon_rounds(st, params, offset, i) ==
    IF i >= ROUNDS_PER_ROW \/ st.b.failed THEN st
    ELSE poseidon_rounds(poseidon_round(st, params, offset + i), params, offset, i + 1)

\* coeff_round dividing by the rounds of a row
coeff_round_by_rounds(offset, i) == offset + (i \div ROUNDS_PER_ROW)

\* offset + (i / width): the round whose constants hold the i-th coefficient
\* (i from 0) of a Poseidon row
coeff_round(offset, i) == offset + (i \div SPONGE_WIDTH)

\* (0..15).map(|i| rc[offset + (i / width)][i % width]).collect()
poseidon_coeffs(rc, offset) ==
    [i \in 1 .. COLUMNS |-> rc[coeff_round(offset, i - 1) + 1][((i - 1) % SPONGE_WIDTH) + 1]]

\* poseidon_cells with the states in the order of the rounds
poseidon_cells_in_order(states, offset) ==
    states[offset + 1] \o states[offset + 2] \o states[offset + 3]
        \o states[offset + 4] \o states[offset + 5]

\* the cells of a Poseidon row: the states offset, offset + 4, offset + 1,
\* offset + 2 and offset + 3 (states is indexed from 0 in the program)
poseidon_cells(states, offset) ==
    states[offset + 1] \o states[offset + 5] \o states[offset + 2]
        \o states[offset + 3] \o states[offset + 4]

\* self.gate(GateSpec { typ: Poseidon, .. }); an index past the end of rc or
\* of states panics
poseidon_gate(st, rc, offset) ==
    IF st.b.failed THEN st
    ELSE IF coeff_round(offset, COLUMNS - 1) >= Len(rc) \/ offset + 5 > Len(st.states)
         THEN [st EXCEPT !.b = panic(st.b).b]
         ELSE [st EXCEPT !.b = gate(st.b, GateSpec("Poseidon", poseidon_cells(st.states, offset),
                                                   poseidon_coeffs(rc, offset)))]

\* for row in 0..POS_ROWS_PER_HASH, from row on
RECURSIVE poseidon_rows(_, _, _)
poseidon_rows(st, params, row) ==
    IF row >= POS_ROWS_PER_HASH \/ st.b.failed THEN st
    ELSE poseidon_rows(poseidon_gate(poseidon_rounds(st, params, row * ROUNDS_PER_ROW, 0),
                                     params.round_constants, row * ROUNDS_PER_ROW),
                       params, row + 1)

\* final_row without the assignments to its first cells
final_row_fresh(states, z) ==
    IF z.b.failed THEN z.b ELSE gate(z.b, GateSpec("Zero", z.vs, <<>>))

\* the Zero row: fresh zero cells, the first three overwritten with the last state
final_row(states, z) ==
    IF z.b.failed THEN z.b
    ELSE gate(z.b, GateSpec("Zero", states[Len(states)] \o SubSeq(z.vs, SPONGE_WIDTH + 1, COLUMNS),
                            <<>>))

\* states.pop().unwrap()
poseidon_return(states, b) ==
    IF b.failed THEN bail(b)
    ELSE [b |-> b, v |-> states[Len(states)][1], vs |-> states[Len(states)]]

poseidon_final(st) ==
    IF st.b.failed THEN bail(st.b)
    ELSE poseidon_return(st.states, final_row(st.states, zeros(st.b, COLUMNS)))

poseidon(b, params, input) ==
    poseidon_final(poseidon_rows([b |-> b, states |-> <<input>>], params, 0))

---------------------------------------------------------------------------
(* scalar_mul: variable-base shifted multiplication, five bits per pair of  *)
(* rows.  c holds the arguments and acc0; st is the builder (b) and the    *)
(* Option `res` (<<>> for None).  The values varbasemul::witness writes   *)
(* into the table `witness` are outside these sources: the table is kept   *)
(* as array_init leaves it, all zero.                                      *)

num_bits == 255
num_row_pairs == num_bits \div 5

\* the thunk that fills the table `witness` and results in F::zero()
table_thunk(xt, yt, shifted, acc0) ==
    IF val(shifted) = None \/ val(xt) = None \/ val(yt) = None
       \/ val(acc0[1]) = None \/ val(acc0[2]) = None
    THEN None
    ELSE Some(0)

\* || witness[j][r]
witness_thunk(j, r) == Some(0)

\* row1_cells with the shifted placed in the first pair
row1_cells_first(vs, c, i) ==
    [j \in 1 .. COLUMNS |->
       IF j = 1 THEN c.xt
       ELSE IF j = 2 THEN c.yt
       ELSE IF i = 0 /\ j = 3 THEN c.acc0[1]
       ELSE IF i = 0 /\ j = 4 THEN c.acc0[2]
       ELSE IF i = 0 /\ j = 5 THEN c.zero
       ELSE IF i = 0 /\ j = 6 THEN c.shifted
       ELSE vs[j]]

\* row1 after its cells have been overwritten
row1_cells(vs, c, i) ==
    [j \in 1 .. COLUMNS |->
       IF j = 1 THEN c.xt
       ELSE IF j = 2 THEN c.yt
       ELSE IF i = 0 /\ j = 3 THEN c.acc0[1]
       ELSE IF i = 0 /\ j = 4 THEN c.acc0[2]
       ELSE IF i = 0 /\ j = 5 THEN c.zero
       ELSE IF i = num_row_pairs - 1 /\ j = 6 THEN c.shifted
       ELSE vs[j]]

\* the two self.gate of a pair
push_pair(c, i, r1, r2) ==
    IF r2.b.failed THEN [b |-> r2.b, res |-> <<>>]
    ELSE [b |-> gate(gate(r2.b, GateSpec("VarBaseMul", row1_cells(r1.vs, c, i), <<>>)),
                     GateSpec("Zero", r2.vs, <<>>)),
          res |-> IF i = num_row_pairs - 1 THEN <<r2.vs[1], r2.vs[2]>> ELSE <<>>]

\* let row2 = array_init(|j| self.var(|| witness[j][2 * i + 1]))
second_row(c, i, r1) ==
    IF r1.b.failed THEN [b |-> r1.b, res |-> <<>>]
    ELSE push_pair(c, i, r1, fresh(r1.b, COLUMNS, witness_thunk(0, 2 * i + 1)))

\* let mut row1 = array_init(|j| self.var(|| witness[j][2 * i]))
scalar_mul_pair(st, c, i) == second_row(c, i, fresh(st.b, COLUMNS, witness_thunk(0, 2 * i)))

\* for i in 0..num_row_pairs, from i on
RECURSIVE scalar_mul_pairs(_, _, _)
scalar_mul_pairs(st, c, i) ==
    IF i >= num_row_pairs \/ st.b.failed THEN st
    ELSE scalar_mul_pairs(scalar_mul_pair(st, c, i), c, i + 1)

\* res.unwrap()
scalar_mul_return(st) ==
    IF st.b.failed \/ st.res = <<>> THEN panic(st.b)
    ELSE [b |-> st.b, v |-> st.res[1], vs |-> st.res]

scalar_mul_ladder(c, t) ==
    IF t.b.failed THEN bail(t.b)
    ELSE scalar_mul_return(scalar_mul_pairs([b |-> t.b, res |-> <<>>], c, 0))

\* let _ = self.var(..), after acc0 = self.add_group(zero, (xt, yt), (xt, yt))
scalar_mul_after(zero, xt, yt, shifted, a) ==
    IF a.b.failed THEN bail(a.b)
    ELSE scalar_mul_ladder([zero |-> zero, xt |-> xt, yt |-> yt, shifted |-> shifted, acc0 |-> a.vs],
                           var(a.b, table_thunk(xt, yt, shifted, a.vs)))

scalar_mul(b, zero, xt, yt, shifted) ==
    scalar_mul_after(zero, xt, yt, shifted, add_group(b, zero, xt, yt, xt, yt))

---------------------------------------------------------------------------
(* System::gates: the compilation of the GateSpecs into CircuitGates with  *)
(* the wiring.  A gate's wires are GateWires, one Wire per permutable      *)
(* column.  Rows and columns are numbered from 0 as in the program.        *)

\* Wire with row and column exchanged
Wire_exchanged(row, col) == [row |-> col, col |-> row]

\* Wire { row, col }
Wire(row, col) == [row |-> row, col |-> col]

\* insert keeping the value a key already has
insert_kept(m, k, v) == m @@ (k :> v)

\* HashMap::insert
insert(m, k, v) == (k :> v) @@ m

\* one step of the loop over the rows and, within a row, of the array_init
\* over the columns: cell number k (from 1, row-major).  st.wires collects
\* the wires.
wire_cell(gs, k, st) ==
    LET row == (k - 1) \div PERMUTS
        col == (k - 1) % PERMUTS
        v == gs[row + 1].row[col + 1].index
        curr == Wire(row, col)
        seen == v \in DOMAIN st.most_recent_cell
    IN [first_cell |-> IF seen THEN st.first_cell ELSE insert(st.first_cell, v, curr),
        most_recent_cell |-> insert(st.most_recent_cell, v, curr),
        wires |-> Append(st.wires, IF seen THEN st.most_recent_cell[v] ELSE curr)]

\* the steps lo .. hi of the loop, in their order
RECURSIVE wire_range(_, _, _, _), wire_rest(_, _, _, _)
wire_range(gs, lo, hi, st) ==
    IF lo > hi THEN st
    ELSE IF lo = hi THEN wire_cell(gs, lo, st)
    ELSE IF lo + 1 = hi THEN wire_cell(gs, hi, wire_cell(gs, lo, st))
    ELSE wire_rest(gs, ((lo + hi) \div 2) + 1, hi, wire_range(gs, lo, (lo + hi) \div 2, st))

\* the steps lo .. hi after the steps before them have left st
wire_rest(gs, lo, hi, st) == IF Len(st.wires) < lo - 1 THEN st ELSE wire_range(gs, lo, hi, st)

\* the loop from cell number k onwards
wire_cells(gs, k, st) == wire_range(gs, k, Len(gs) * PERMUTS, st)

\* finish_cycle writing at the first column of the row of the first cell
finish_cycle_row_start(gs, first_cell, most_recent_cell, v) ==
    [gs EXCEPT ![first_cell[v].row + 1].wires[1] = most_recent_cell[v]]

\* one step of the closing pass: the first cell of the variable v is wired to its last
finish_cycle(gs, first_cell, most_recent_cell, v) ==
    [gs EXCEPT ![first_cell[v].row + 1].wires[first_cell[v].col + 1] = most_recent_cell[v]]

\* the steps lo .. hi of the closing pass, in the order of the iteration
RECURSIVE finish_range(_, _, _, _, _, _), finish_rest(_, _, _, _, _, _)
finish_range(gs, first_cell, most_recent_cell, order, lo, hi) ==
    IF lo > hi THEN gs
    ELSE IF lo = hi THEN finish_cycle(gs, first_cell, most_recent_cell, order[lo])
    ELSE finish_rest(finish_range(gs, first_cell, most_recent_cell, order, lo, (lo + hi) \div 2),
                     first_cell, most_recent_cell, order, ((lo + hi) \div 2) + 1, hi)

\* the steps lo .. hi after the steps before them have left gs
finish_rest(gs, first_cell, most_recent_cell, order, lo, hi) ==
    IF Len(gs) = 0 THEN gs ELSE finish_range(gs, first_cell, most_recent_cell, order, lo, hi)

\* finish_cycles leaving the cycles open
finish_cycles_open(gs, first_cell, most_recent_cell, order) == gs

\* finish the permutation cycle, iterating first_cell in the given order
finish_cycles(gs, first_cell, most_recent_cell, order) ==
    finish_range(gs, first_cell, most_recent_cell, order, 1, Len(order))

gates(s, order) ==
    LET st == wire_cells(s.gates, 1, [first_cell |-> <<>>, most_recent_cell |-> <<>>, wires |-> <<>>])
        gs == [r \in 1 .. Len(s.gates) |->
                 [typ |-> s.gates[r].typ,
                  coeffs |-> s.gates[r].coeffs,
                  wires |-> SubSeq(st.wires, (r - 1) * PERMUTS + 1, r * PERMUTS)]]
    IN finish_cycles(gs, st.first_cell, st.most_recent_cell, order)

\* the variables System::gates keys its maps with
first_cell_keys(s) ==
    {s.gates[r].row[c].index : r \in 1 .. Len(s.gates), c \in 1 .. PERMUTS}

\* the elements of a set of variable indices, the smallest first
ascending(S) ==
    IF S = {} THEN <<>>
    ELSE LET m == CHOOSE x \in S : \A y \in S : y <= x
         IN SelectSeq([i \in 1 .. (m + 1) |-> i - 1], LAMBDA x : x \in S)

reverse(s) == [i \in 1 .. Len(s) |-> s[Len(s) + 1 - i]]

\* iteration orders of the HashMap first_cell: no order is promised
iteration_orders(S) == {ascending(S), reverse(ascending(S))}

---------------------------------------------------------------------------
(* ConstraintSystem::verify: the check of the wiring and of the public   *)
(* rows.  The witness is given by rows; gate.verify, the satisfiability of *)
(* the single gates, is not part of it here, so the wiring of every row is *)
(* looked at.                                                              *)

\* the check of the cells of row `row` (from 0) from column `col` (from 0) on
RECURSIVE verify_wires(_, _, _, _)
verify_wires(gs, witness, row, col) ==
    IF col = PERMUTS THEN "Ok"
    ELSE LET wire == gs[row + 1].wires[col + 1]
         IN IF wire.col >= PERMUTS THEN "Custom"
            ELSE IF witness[row + 1][col + 1] # witness[wire.row + 1][wire.col + 1]
                 THEN "DisconnectedWires"
                 ELSE verify_wires(gs, witness, row, col + 1)

RECURSIVE verify_rows(_, _, _, _)
verify_rows(gs, witness, npublic, row) ==
    IF row = Len(gs) THEN "Ok"
    ELSE LET w == verify_wires(gs, witness, row, 0)
         IN IF w # "Ok" THEN w
            ELSE IF row < npublic /\ gs[row + 1].coeffs[1] # 1 THEN "IncorrectPublic"
                 ELSE verify_rows(gs, witness, npublic, row + 1)

verify(gs, witness, npublic) == verify_rows(gs, witness, npublic, 0)

---------------------------------------------------------------------------
(* The drivers *)

\* vec![C::InnerField::one(), z, z, z, z, z, z, z, z, z]
public_input_row == <<1, 0, 0, 0, 0, 0, 0, 0, 0, 0>>

\* generate_prover_index: one Generic row per public input; every thunk panics
RECURSIVE public_input(_, _)
public_input(b, n) ==
    IF n = 0 THEN [b |-> b, vs |-> <<>>]
    ELSE LET r == public_input(b, n - 1)
         IN IF r.b.failed THEN r ELSE
            LET v == var(r.b, None)
            IN IF v.b.failed THEN bail(v.b) ELSE
               LET z == fresh(v.b, COLUMNS - 1, None)
               IN IF z.b.failed THEN bail(z.b) ELSE
                  [b |-> gate(z.b, GateSpec("Generic", <<v.v>> \o z.vs, public_input_row)),
                   vs |-> Append(r.vs, v.v)]

generate_prover_index(n) ==
    public_input([mode |-> "circuit", next_variable |-> 0, gates |-> <<>>,
                  calls |-> <<>>, thunks |-> 0, failed |-> FALSE], n)

\* prove without the public rows in the witness
prove_unseeded(input) ==
    [b |-> [mode |-> "witness", rows |-> <<>>, calls |-> <<>>, thunks |-> 0, failed |-> FALSE],
     vs |-> [k \in 1 .. Len(input) |-> Var(0, Some(input[k]))]]

\* prove: the public rows are written into the witness, the closure gets
\* Vars of index 0 holding the public values
prove(input) ==
    [b |-> [mode |-> "witness",
            rows |-> [k \in 1 .. Len(input) |-> [i \in 1 .. COLUMNS |-> IF i = 1 THEN input[k] ELSE 0]],
            calls |-> <<>>, thunks |-> 0, failed |-> FALSE],
     vs |-> [k \in 1 .. Len(input) |-> Var(0, Some(input[k]))]]

---------------------------------------------------------------------------
(* The state machine *)

Init ==
    /\ pc = "init"
    /\ public = 0
    /\ sys = [mode |-> "circuit", next_variable |-> 0, gates |-> <<>>,
              calls |-> <<>>, thunks |-> 0, failed |-> FALSE]
    /\ gen = [mode |-> "witness", rows |-> <<>>, calls |-> <<>>, thunks |-> 0, failed |-> FALSE]
    /\ cvars = <<>>
    /\ wvars = <<>>
    /\ prov = <<>>
    /\ last = [op |-> "none", args |-> <<>>, ret |-> <<>>]
    /\ steps = 0
    /\ compiled = <<>>

\* the drivers set up the public inputs (none for a closure run on fresh backends)
\* and hand them to the closure
Start ==
    /\ pc = "init"
    /\ \E n \in 0 .. MaxSteps : \E input \in [1 .. n -> F] :
         LET c == generate_prover_index(n)
             w == prove(input)
         IN /\ public' = n
            /\ sys' = c.b
            /\ gen' = w.b
            /\ cvars' = c.vs
            /\ wvars' = w.vs
            /\ prov' = [k \in 1 .. n |-> "public"]
            /\ steps' = n
    /\ pc' = "main"
    /\ UNCHANGED <<last, compiled>>

\* the closure has made the call `op` on both backends: rc and rw are the
\* builders after it, cret and wret the Vars it returned
Ran(op, args, rc, cret, rw, wret) ==
    /\ sys' = rc
    /\ gen' = rw
    /\ cvars' = cvars \o cret
    /\ wvars' = wvars \o wret
    /\ prov' = prov \o [k \in 1 .. (Len(rc.gates) - Len(sys.gates)) |-> op]
    /\ last' = [op |-> op, args |-> args, ret |-> wret]
    /\ steps' = steps + 1
    /\ pc' = IF rc.failed \/ rw.failed THEN "panicked" ELSE "main"
    /\ UNCHANGED <<public, compiled>>

Running == pc = "main" /\ steps < MaxSteps
Held == 1 .. Len(cvars)

\* sys.var(|| x): a free variable
CallVar ==
    /\ Running
    /\ \E x \in F :
         LET c == var(sys, Some(x)) w == var(gen, Some(x))
         IN Ran("var", <<x>>, c.b, <<c.v>>, w.b, <<w.v>>)

CallConstant ==
    /\ Running
    /\ \E x \in F :
         LET c == constant(sys, x) w == constant(gen, x)
         IN Ran("constant", <<x>>, c.b, <<c.v>>, w.b, <<w.v>>)

CallScale ==
    /\ Running
    /\ \E x \in F, i \in Held :
         LET c == scale(sys, x, cvars[i]) w == scale(gen, x, wvars[i])
         IN Ran("scale", <<x, wvars[i]>>, c.b, <<c.v>>, w.b, <<w.v>>)

CallAssertEq ==
    /\ Running
    /\ \E i, j \in Held :
         LET c == assert_eq(sys, cvars[i], cvars[j]) w == assert_eq(gen, wvars[i], wvars[j])
         IN Ran("assert_eq", <<wvars[i], wvars[j]>>, c.b, <<>>, w.b, <<>>)

CallAnd ==
    /\ Running
    /\ \E i, j \in Held :
         LET c == and(sys, cvars[i], cvars[j]) w == and(gen, wvars[i], wvars[j])
         IN Ran("and", <<wvars[i], wvars[j]>>, c.b, <<c.v>>, w.b, <<w.v>>)

CallOr ==
    /\ Running
    /\ \E i, j \in Held :
         LET c == or(sys, cvars[i], cvars[j]) w == or(gen, wvars[i], wvars[j])
         IN Ran("or", <<wvars[i], wvars[j]>>, c.b, <<c.v>>, w.b, <<w.v>>)

CallAdd ==
    /\ Running
    /\ \E i, j \in Held :
         LET c == add(sys, cvars[i], cvars[j]) w == add(gen, wvars[i], wvars[j])
         IN Ran("add", <<wvars[i], wvars[j]>>, c.b, <<c.v>>, w.b, <<w.v>>)

CallSub ==
    /\ Running
    /\ \E i, j \in Held :
         LET c == sub(sys, cvars[i], cvars[j]) w == sub(gen, wvars[i], wvars[j])
         IN Ran("sub", <<wvars[i], wvars[j]>>, c.b, <<c.v>>, w.b, <<w.v>>)

CallEquals ==
    /\ Running
    /\ \E i, j \in Held :
         LET c == equals(sys, cvars[i], cvars[j]) w == equals(gen, wvars[i], wvars[j])
         IN Ran("equals", <<wvars[i], wvars[j]>>, c.b, <<c.v>>, w.b, <<w.v>>)

CallCondSelect ==
    /\ Running
    /\ \E i, j, k \in Held :
         LET c == cond_select(sys, cvars[i], cvars[j], cvars[k])
             w == cond_select(gen, wvars[i], wvars[j], wvars[k])
         IN Ran("cond_select", <<wvars[i], wvars[j], wvars[k]>>, c.b, <<c.v>>, w.b, <<w.v>>)

\* system.gates() after the closure has returned
Compile ==
    /\ pc = "main"
    /\ \E order \in iteration_orders(first_cell_keys(sys)) : compiled' = gates(sys, order)
    /\ pc' = "compiled"
    /\ UNCHANGED <<public, sys, gen, cvars, wvars, prov, last, steps>>

Next ==
    \/ Start
    \/ CallVar
    \/ CallConstant
    \/ CallScale
    \/ CallAssertEq
    \/ CallAnd
    \/ CallOr
    \/ CallAdd
    \/ CallSub
    \/ CallEquals
    \/ CallCondSelect
    \/ Compile

Spec == Init /\ [][Next]_vars

---------------------------------------------------------------------------
(* The circuit of equals under any witness: the constraint system is       *)
(* handed a witness that need not come from the witness generator.         *)

\* the indices of the Variables a Generic row constrains: those in the
\* columns 0, 1, 2 that a non-zero coefficient of the first sub-gate touches
constrained(g) ==
    {g.row[c].index : c \in {c \in 1 .. GENERICS :
        g.coeffs[c] # 0 \/ (c <= 2 /\ g.coeffs[GENERICS + 1] # 0)}}

\* the witness rows in which every cell of Variable i holds a[i], the cells of
\* the other Variables hold 0
rows_of(gs, a) ==
    [r \in 1 .. Len(gs) |->
       [c \in 1 .. COLUMNS |->
          IF gs[r].row[c].index \in DOMAIN a THEN a[gs[r].row[c].index] ELSE 0]]

\* a closure allocates one or two Variables and calls equals on them in
\* circuit mode
BuildEquals ==
    /\ pc = "init"
    /\ \E same \in BOOLEAN :
         LET x == fresh(sys, IF same THEN 1 ELSE 2, None)
             x1 == x.vs[1]
             x2 == x.vs[Len(x.vs)]
             c == equals(x.b, x1, x2)
         IN /\ sys' = c.b
            /\ cvars' = <<x1, x2, c.v>>
            /\ prov' = [r \in 1 .. Len(c.b.gates) |-> "equals"]
            /\ last' = [op |-> "equals", args |-> <<x1, x2>>, ret |-> <<c.v>>]
    /\ pc' = "built"
    /\ steps' = steps + 1
    /\ UNCHANGED <<public, gen, wvars, compiled>>

\* the witness handed to the constraint system is any assignment of field
\* values to the Variables the rows constrain, equal on the cells sharing a
\* Variable
AssignWitness ==
    /\ pc = "built"
    /\ \E a \in [UNION {constrained(sys.gates[r]) : r \in 1 .. Len(sys.gates)} -> F] :
         /\ gen' = [gen EXCEPT !.rows = rows_of(sys.gates, a)]
         /\ wvars' = [i \in 1 .. Len(cvars) |-> Var(0, Some(a[cvars[i].index]))]
    /\ pc' = "assigned"
    /\ steps' = steps + 1
    /\ UNCHANGED <<public, sys, cvars, prov, last, compiled>>

NextSound ==
    \/ BuildEquals
    \/ AssignWitness

SpecSound == Init /\ [][NextSound]_vars

---------------------------------------------------------------------------
(* Closures run whole on fresh backends, as generate_gates and             *)
(* generate_witness of the tests run a template: once on System, once on   *)
(* WitnessGenerator.                                                       *)

\* let x = sys.var(|| v) for each v of vals
RECURSIVE free_vars(_, _)
free_vars(b, vals) ==
    IF vals = <<>> THEN [b |-> b, vs |-> <<>>]
    ELSE LET s == var(b, Some(Head(vals)))
         IN IF s.b.failed THEN bail(s.b)
            ELSE LET r == free_vars(s.b, Tail(vals))
                 IN [b |-> r.b, vs |-> <<s.v>> \o r.vs]

ZK_ROWS == 3

\* self.gate of a Zero row of fresh cells
zero_row(r) == IF r.b.failed THEN r.b ELSE gate(r.b, GateSpec("Zero", r.vs, <<>>))

\* zk: ZK_ROWS rows of Zero gates, every cell a fresh Variable with a random
\* value; rnd holds the values F::rand draws, in the order of the draws
RECURSIVE zk_rows(_, _, _)
zk_rows(b, rnd, row) ==
    IF row >= ZK_ROWS \/ b.failed THEN b
    ELSE zk_rows(zero_row(free_vars(b, SubSeq(rnd, row * COLUMNS + 1, (row + 1) * COLUMNS))),
                 rnd, row + 1)

zk(b, rnd) == [b |-> zk_rows(b, rnd, 0)]

\* let x1 = sys.constant(a1); let x2 = sys.constant(a2); sys.sub(x1, x2)
sub_circuit_template(b, a1, a2) ==
    LET x1 == constant(b, a1)
        x2 == constant(x1.b, a2)
    IN sub(x2.b, x1.v, x2.v)

\* let s = sys.add(a, b); sys.sub(s, b): both Vars are kept
sub_add(b, x, y) ==
    LET s == add(b, x, y)
        d == sub(s.b, s.v, y)
    IN [b |-> d.b, vs |-> <<s.v, d.v>>]

Fresh == pc = "init"

SubTemplate ==
    /\ Fresh
    /\ \E a1, a2 \in F :
         LET c == sub_circuit_template(sys, a1, a2)
             w == sub_circuit_template(gen, a1, a2)
         IN Ran("sub", <<Var(0, Some(a1)), Var(0, Some(a2))>>, c.b, <<c.v>>, w.b, <<w.v>>)

SubAddTemplate ==
    /\ Fresh
    /\ \E a1, a2 \in F :
         LET ci == free_vars(sys, <<a1, a2>>)
             wi == free_vars(gen, <<a1, a2>>)
             c == sub_add(ci.b, ci.vs[1], ci.vs[2])
             w == sub_add(wi.b, wi.vs[1], wi.vs[2])
         IN Ran("sub_add", wi.vs, c.b, c.vs, w.b, w.vs)

\* let zero = sys.constant(0), then the coordinates as free variables
with_zero(zero, r) == [b |-> r.b, zero |-> zero, vs |-> r.vs]
point_inputs_after(zero, coords) == with_zero(zero.v, free_vars(zero.b, coords))
point_inputs(b, coords) == point_inputs_after(constant(b, 0), coords)

\* what a closure leaves: the builder (b), the Vars it was given or allocated
\* as inputs (in) and the Vars its gadget returned (vs, none after a panic)
closure(in, r) == [b |-> r.b, in |-> in, vs |-> IF r.b.failed THEN <<>> ELSE r.vs]
closure_one(in, r) == [b |-> r.b, in |-> in, vs |-> IF r.b.failed THEN <<>> ELSE <<r.v>>]
closure_none(in, r) == [b |-> r.b, in |-> in, vs |-> <<>>]

\* the closure has been run on System (c) and on WitnessGenerator (w)
RanBoth(op, c, w) == Ran(op, w.in, c.b, c.vs, w.b, w.vs)

add_group_on(i) ==
    closure(i.vs, add_group(i.b, i.zero, i.vs[1], i.vs[2], i.vs[3], i.vs[4]))

AddGroupTemplate ==
    /\ Fresh
    /\ \E x1, y1, x2, y2 \in F :
         RanBoth("add_group", add_group_on(point_inputs(sys, <<x1, y1, x2, y2>>)),
                 add_group_on(point_inputs(gen, <<x1, y1, x2, y2>>)))

double_on(i) == closure(i.vs, double(i.b, i.zero, i.vs[1], i.vs[2]))

DoubleTemplate ==
    /\ Fresh
    /\ \E x1, y1 \in F :
         RanBoth("double", double_on(point_inputs(sys, <<x1, y1>>)),
                 double_on(point_inputs(gen, <<x1, y1>>)))

\* System { next_variable: 0, gates: vec![] }
new_System ==
    [mode |-> "circuit", next_variable |-> 0, gates |-> <<>>,
     calls |-> <<>>, thunks |-> 0, failed |-> FALSE]

\* WitnessGenerator { rows: vec![] }
new_WitnessGenerator ==
    [mode |-> "witness", rows |-> <<>>, calls |-> <<>>, thunks |-> 0, failed |-> FALSE]

\* the little-endian bits of the integer k, len of them
bits_le(k, len) == [i \in 1 .. len |-> (k \div (2 ^ (i - 1))) % 2]

\* the arguments are the length and what the closure g returns
EndoScalarTemplate ==
    /\ Fresh
    /\ \E length \in 0 .. MaxBits, y \in 0 .. P :
         RanBoth("endo_scalar", closure_one(<<length, y>>, endo_scalar(sys, length, y)),
                 closure_one(<<length, y>>, endo_scalar(gen, length, y)))

ScalarTemplate ==
    /\ Fresh
    /\ \E length \in 0 .. MaxBits, x \in 0 .. (R - 1) :
         RanBoth("scalar", closure_one(<<length, x>>, scalar(sys, length, x)),
                 closure_one(<<length, x>>, scalar(gen, length, x)))

\* let zero = sys.constant(0); let x = sys.var(|| xv); one free variable per bit
assert_pack_on(i) == closure_none(i.vs, assert_pack(i.b, i.zero, i.vs[1], Tail(i.vs)))

AssertPackTemplate ==
    /\ Fresh
    /\ \E len \in 0 .. MaxPackBits, k \in 0 .. MaxPacked, xv \in F :
         RanBoth("assert_pack", assert_pack_on(point_inputs(sys, <<xv>> \o bits_le(k, len))),
                 assert_pack_on(point_inputs(gen, <<xv>> \o bits_le(k, len))))

\* the arguments are the point, the scalar, constants.endo and the length
endo_on(i, constants_endo, length_in_bits) ==
    closure(i.vs \o <<constants_endo, length_in_bits>>,
            endo(i.b, i.zero, constants_endo, i.vs[1], i.vs[2], i.vs[3], length_in_bits))

EndoTemplate ==
    /\ Fresh
    /\ \E length \in 0 .. MaxBits, constants_endo, xt, yt, k \in F :
         RanBoth("endo", endo_on(point_inputs(sys, <<xt, yt, k>>), constants_endo, length),
                 endo_on(point_inputs(gen, <<xt, yt, k>>), constants_endo, length))

equals_old_on(i) == closure_one(i.vs, equals_old(i.b, i.vs[1], i.vs[2]))

\* let x1 = sys.var(|| a1); let x2 = sys.var(|| a2); sys.equals_old(x1, x2)
EqualsOldTemplate ==
    /\ Fresh
    /\ \E a1, a2 \in F :
         RanBoth("equals_old", equals_old_on(free_vars(sys, <<a1, a2>>)),
                 equals_old_on(free_vars(gen, <<a1, a2>>)))

NextLib ==
    \/ EqualsOldTemplate
    \/ EndoTemplate
    \/ EndoScalarTemplate
    \/ ScalarTemplate
    \/ AssertPackTemplate
    \/ SubTemplate
    \/ SubAddTemplate
    \/ AddGroupTemplate
    \/ DoubleTemplate

SpecLib == Init /\ [][NextLib]_vars

---------------------------------------------------------------------------
(* Third specification: the closures of SpecLib and closures over the      *)
(* custom-gate gadgets, each followed by system.gates().  The arguments of *)
(* a behaviour are the Vars handed to the gadget and then its constants.   *)

\* the rows endo is asked for are 0 .. MaxEndoRows
MaxEndoRows == 2

\* let (x3, y3) = sys.add_group(zero, p1, p2);
\* sys.assert_add_group(zero, p1, p2, (x3, y3)); (x3, y3)
assert_sum(i, r) ==
    IF r.b.failed THEN r
    ELSE [b |-> assert_add_group(r.b, i.zero, i.vs[1], i.vs[2], i.vs[3], i.vs[4],
                                 r.vs[1], r.vs[2]).b,
          vs |-> r.vs]

add_assert_on(i) ==
    closure(i.vs, assert_sum(i, add_group(i.b, i.zero, i.vs[1], i.vs[2], i.vs[3], i.vs[4])))

AssertAddGroupTemplate ==
    /\ Fresh
    /\ \E x1, y1, x2, y2 \in F :
         RanBoth("assert_add_group", add_assert_on(point_inputs(sys, <<x1, y1, x2, y2>>)),
                 add_assert_on(point_inputs(gen, <<x1, y1, x2, y2>>)))

\* sponge parameters: n rounds of constants
sponge_params(seed, n) ==
    [round_constants |-> [r \in 1 .. n |-> [m \in 1 .. SPONGE_WIDTH |-> (seed * r + m) % P]],
     mds |-> <<<<1, 1, 2>>, <<1, 2, 1>>, <<2, 1, 1>>>>,
     alpha |-> 7]

\* tables with the rounds of one hash, and with one round more
SpongeParams ==
    {sponge_params(seed, POS_ROWS_PER_HASH * ROUNDS_PER_ROW + more) : seed \in 1 .. 2, more \in 0 .. 1}

poseidon_on(i, params) == closure(i.vs \o <<params>>, poseidon(i.b, params, i.vs))

\* the three inputs are free variables
PoseidonTemplate ==
    /\ Fresh
    /\ \E a1, a2, a3 \in F, params \in SpongeParams :
         RanBoth("poseidon", poseidon_on(free_vars(sys, <<a1, a2, a3>>), params),
                 poseidon_on(free_vars(gen, <<a1, a2, a3>>), params))

scalar_mul_on(i) == closure(i.vs, scalar_mul(i.b, i.zero, i.vs[1], i.vs[2], i.vs[3]))

ScalarMulTemplate ==
    /\ Fresh
    /\ \E xt, yt \in 1 .. 2, k \in 0 .. 1 :
         RanBoth("scalar_mul", scalar_mul_on(point_inputs(sys, <<xt, yt, k>>)),
                 scalar_mul_on(point_inputs(gen, <<xt, yt, k>>)))

\* the draws of the random number generator
draws(seed, stride) == [k \in 1 .. ZK_ROWS * COLUMNS |-> (seed + stride * k) % P]

zk_on(rnd, b) == closure_none(rnd, zk(b, rnd))

ZkTemplate ==
    /\ Fresh
    /\ \E seed, stride \in F :
         RanBoth("zk", zk_on(draws(seed, stride), sys), zk_on(draws(seed, stride), gen))

\* endo over whole rows: four bits per row
EndoLadderTemplate ==
    /\ Fresh
    /\ \E rows \in 0 .. MaxEndoRows, constants_endo, xt, yt, k \in F :
         RanBoth("endo", endo_on(point_inputs(sys, <<xt, yt, k>>), constants_endo, 4 * rows),
                 endo_on(point_inputs(gen, <<xt, yt, k>>), constants_endo, 4 * rows))

NextGadgets ==
    \/ EqualsOldTemplate
    \/ EndoLadderTemplate
    \/ SubTemplate
    \/ SubAddTemplate
    \/ AddGroupTemplate
    \/ DoubleTemplate
    \/ AssertAddGroupTemplate
    \/ PoseidonTemplate
    \/ ScalarMulTemplate
    \/ ZkTemplate
    \/ Compile

SpecGadgets == Init /\ [][NextGadgets]_vars

---------------------------------------------------------------------------
(* Properties *)

\* the relation of a single generic sub-gate on the cells (l, r, o) of a row
\* with the coefficients (q_l, q_r, q_o, q_m, q_c):
\* q_l*l + q_r*r + q_o*o + q_m*l*r + q_c = 0 in the field
GenericSat(coeffs, row) ==
    (coeffs[1] * row[1] + coeffs[2] * row[2] + coeffs[3] * row[3]
       + coeffs[4] * row[1] * row[2] + coeffs[5]) % P = 0

\* the builder calls the closure made on the circuit backend: the calls of
\* generate_prover_index (COLUMNS var and one gate per public input) precede them
ClosureCalls == SubSeq(sys.calls, public * (COLUMNS + 1) + 1, Len(sys.calls))

\* the number of var calls among the first k calls of a history
VarCallsBefore(calls, k) == Cardinality({j \in 1 .. (k - 1) : calls[j].kind = "var"})

Boolean(v) == v.value \in {Some(0), Some(1)}

\* the rows emitted by the closure's calls of gadget op
RowsOf(op) == {i \in 1 .. Len(prov) : prov[i] = op}

\* C1: every Generic row that add, sub, or, constant, scale, cond_select,
\* equals, and assert_eq on two Variables of equal value push in witness mode
\* satisfies the generic relation with the coefficients the same call emitted
\* at the same row in circuit mode.
C1_GenericRowsSatisfied ==
    \A i \in 1 .. Len(gen.rows) :
       (/\ i <= Len(sys.gates)
        /\ \/ prov[i] \in {"add", "sub", "or", "constant", "scale", "cond_select", "equals"}
           \/ prov[i] = "assert_eq" /\ gen.rows[i][1] = gen.rows[i][2])
       => /\ sys.gates[i].typ = "Generic"
          /\ GenericSat(sys.gates[i].coeffs, gen.rows[i])

\* C1 witness: equals has run on two different values and has pushed its rows,
\* the second of which carries the non-zero difference
C1_Witness ==
    /\ last.op = "equals"
    /\ last.args[1].value # last.args[2].value
    /\ Cardinality(RowsOf("equals")) = 5
    /\ Len(gen.rows) = Len(sys.gates)
    /\ \E i \in RowsOf("equals") : sys.gates[i].coeffs[4] = 1 /\ gen.rows[i][2] # 0

\* C2: for Boolean inputs the witness row of and(x1, x2) satisfies the generic
\* relation with the coefficients and emits in circuit mode.
C2_AndRowSatisfied ==
    \A i \in RowsOf("and") :
       (i <= Len(gen.rows) /\ gen.rows[i][1] \in {0, 1} /\ gen.rows[i][2] \in {0, 1})
       => GenericSat(sys.gates[i].coeffs, gen.rows[i])

\* C3: the witness has as many rows as the gate list has GateSpecs, and
\* curr_gate_count() is the same on both backends after each builder call of
\* the closure.
C3_SameGateCount ==
    /\ Len(gen.rows) = Len(sys.gates)
    /\ Len(gen.calls) = Len(ClosureCalls)
    /\ \A k \in 1 .. Len(gen.calls) : gen.calls[k].count = ClosureCalls[k].count
    /\ curr_gate_count(gen) = curr_gate_count(sys)

\* C3 witness: the closure has made gadget calls after public inputs and rows
\* were pushed by it
C3_Witness ==
    /\ public >= 1
    /\ Len(gen.rows) >= public + 4
    /\ Len(gen.calls) > COLUMNS

\* C4 as stated: the k-th builder call is a var on one backend exactly when it
\* is one on the other, and the indices handed out are the same in both runs.
C4_SameIndices ==
    /\ Len(gen.calls) = Len(ClosureCalls)
    /\ \A k \in 1 .. Len(gen.calls) :
         /\ gen.calls[k].kind = ClosureCalls[k].kind
         /\ gen.calls[k].kind = "var" => gen.calls[k].index = ClosureCalls[k].index

\* C4 amended: the k-th builder call is a var on one backend exactly when it
\* is one on the other (var and gate calls interleave identically); the
\* circuit backend hands out consecutive indices, following those of the
\* public-input rows, while the witness backend hands out index 0 every time.
C4_SameInterleaving ==
    /\ Len(gen.calls) = Len(ClosureCalls)
    /\ \A k \in 1 .. Len(gen.calls) :
         /\ gen.calls[k].kind = ClosureCalls[k].kind
         /\ gen.calls[k].kind = "var" =>
              /\ gen.calls[k].index = 0
              /\ ClosureCalls[k].index = public * COLUMNS + VarCallsBefore(gen.calls, k)

\* C4 witness: the closure has allocated variables and pushed rows in between
C4_Witness ==
    /\ \E j, k \in 1 .. Len(gen.calls) :
         /\ j < k
         /\ gen.calls[j].kind = "gate"
         /\ gen.calls[k].kind = "var"
         /\ ClosureCalls[k].index > 0
    /\ public >= 1

\* the pairs (index, value) of the cells of all rows, and the indices alone
CellPairs ==
    {<<sys.gates[r].row[c].index, gen.rows[r][c]>> : r \in 1 .. Len(sys.gates), c \in 1 .. COLUMNS}
CellIndices ==
    {sys.gates[r].row[c].index : r \in 1 .. Len(sys.gates), c \in 1 .. COLUMNS}

\* C5: cells holding Variables of the same index in the gate list (public
\* rows included) hold equal values in the witness, and verify does not report
\* DisconnectedWires for the compiled gates and that witness.
C5_SameIndexSameValue ==
    /\ Len(gen.rows) = Len(sys.gates)
    /\ Cardinality(CellPairs) = Cardinality(CellIndices)
    /\ pc = "compiled" => verify(compiled, gen.rows, public) # "DisconnectedWires"

\* C5 witness: a compiled circuit in which a public input, of non-zero value,
\* is used by a gadget, so that its cells are wired together
C5_Witness ==
    /\ pc = "compiled"
    /\ public >= 1
    /\ gen.rows[1][1] # 0
    /\ \E r \in 2 .. Len(compiled) : \E c \in 1 .. PERMUTS :
         compiled[r].wires[c] = Wire(0, 0)
    /\ verify(compiled, gen.rows, public) = "Ok"

\* the wired cells holding variable v, in emission order
RECURSIVE CellsOf(_, _)
CellsOf(v, k) ==
    IF k > Len(sys.gates) * PERMUTS THEN <<>>
    ELSE LET row == (k - 1) \div PERMUTS
             col == (k - 1) % PERMUTS
         IN (IF sys.gates[row + 1].row[col + 1].index = v THEN <<Wire(row, col)>> ELSE <<>>)
            \o CellsOf(v, k + 1)

\* the wires entry stored at a cell
WireAt(cell) == compiled[cell.row + 1].wires[cell.col + 1]

\* C6 as stated: the wires entry stored at c_i is c_(i+1), the one stored at
\* c_n is c_1.
C6_ForwardCycle ==
    pc = "compiled" =>
       \A v \in first_cell_keys(sys) :
          LET cs == CellsOf(v, 1)
              n == Len(cs)
          IN \A i \in 1 .. n : WireAt(cs[i]) = cs[(i % n) + 1]

\* C6 amended: the wiring is the cycle c_1 -> c_n -> ... -> c_2 -> c_1: the
\* wires entry stored at c_i (i > 1) is the previous cell c_(i-1), the one
\* stored at c_1 is the last cell c_n.
C6_BackwardCycle ==
    pc = "compiled" =>
       \A v \in first_cell_keys(sys) :
          LET cs == CellsOf(v, 1)
              n == Len(cs)
          IN \A i \in 1 .. n : WireAt(cs[i]) = cs[IF i = 1 THEN n ELSE i - 1]

\* C6 witness: a compiled circuit with a variable at three or more wired cells
C6_Witness ==
    /\ pc = "compiled"
    /\ \E v \in first_cell_keys(sys) : Len(CellsOf(v, 1)) >= 3

\* C7: on the circuit backend the k-th var call (k = 0, 1, ...) returns index
\* k without a value; next_variable is the number of var calls made, so the
\* indices returned are pairwise distinct.
C7_CircuitVar ==
    /\ \A k \in 1 .. Len(sys.calls) :
         sys.calls[k].kind = "var" => sys.calls[k].index = VarCallsBefore(sys.calls, k)
    /\ sys.next_variable = VarCallsBefore(sys.calls, Len(sys.calls) + 1)
    /\ \A i \in 1 .. Len(cvars) : cvars[i].value = None /\ cvars[i].index < sys.next_variable
    /\ \A i, j \in 1 .. Len(cvars) : cvars[i].index = cvars[j].index => i = j

\* C7 witness: var calls of the drivers and of the closure, separated by rows
C7_Witness ==
    /\ public >= 1
    /\ last.op = "var"
    /\ sys.next_variable > 2 * COLUMNS
    /\ Len(cvars) >= 3

C9_AndOrValue ==
    (last.op \in {"and", "or"} /\ Boolean(last.args[1]) /\ Boolean(last.args[2])) =>
       LET x1 == last.args[1].value[1]
           x2 == last.args[2].value[1]
       IN last.ret[1].value =
             Some(IF last.op = "and"
                  THEN (IF x1 = 1 /\ x2 = 1 THEN 1 ELSE 0)
                  ELSE (IF x1 = 1 \/ x2 = 1 THEN 1 ELSE 0))

\* C9 witness: or has run on the inputs 1 and 0
C9_Witness ==
    /\ last.op = "or"
    /\ last.args[1].value = Some(1)
    /\ last.args[2].value = Some(0)
    /\ last.ret[1].value = Some(1)

\* C10: the Variable returned by equals(x1, x2) holds 1 when the values of x1
\* and x2 are equal and 0 when they differ.
C10_EqualsValue ==
    last.op = "equals" =>
       last.ret[1].value = Some(IF last.args[1].value = last.args[2].value THEN 1 ELSE 0)

\* C10 witness: equals has run on two Variables of different value and has
\* returned 0
C10_Witness ==
    /\ last.op = "equals"
    /\ last.args[1].value # last.args[2].value
    /\ last.ret[1].value = Some(0)

\* the call the closure has just made was a call of gadget op
JustCalled(op) == steps' = steps + 1 /\ last'.op = op

\* the rows the call just made has appended, on both backends, are n Generic rows
AppendedGeneric(n) ==
    /\ Len(sys'.gates) = Len(sys.gates) + n
    /\ Len(gen'.rows) = Len(gen.rows) + n
    /\ \A i \in (Len(sys.gates) + 1) .. Len(sys'.gates) : sys'.gates[i].typ = "Generic"

\* C12 as stated: a call of equals appends exactly three rows, all Generic,
\* on both backends, whatever the operands.
C12_ThreeRows == [][JustCalled("equals") => AppendedGeneric(3)]_vars

\* C12 amended: a call of equals appends exactly five rows, all Generic, on
\* both backends, whatever the operands: the row of sub(x2, x1), the row of
\* constant(1) and the three rows of its own constraints.
C12_FiveRows == [][JustCalled("equals") => AppendedGeneric(5)]_vars

\* C12 witness: equals has been called on equal and on different values
C12_Witness ==
    /\ last.op = "equals"
    /\ last.args[1].value # last.args[2].value
    /\ Cardinality(RowsOf("equals")) = 10
    /\ Len(gen.rows) = Len(sys.gates)

\* C13 as stated: for Boolean b, t, f the value returned by
\* cond_select(b, t, f) equals t if and only if b = 1.
C13_TIffB ==
    (last.op = "cond_select" /\ \A i \in 1 .. 3 : Boolean(last.args[i])) =>
       (last.ret[1].value = last.args[2].value <=> last.args[1].value = Some(1))

\* C13 amended: for Boolean b, t, f the value returned by cond_select(b, t, f)
\* is t when b = 1 and f when b = 0 (so it equals t exactly when b = 1 or t = f).
C13_Select ==
    (last.op = "cond_select" /\ \A i \in 1 .. 3 : Boolean(last.args[i])) =>
       last.ret[1].value = (IF last.args[1].value = Some(1) THEN last.args[2].value
                            ELSE last.args[3].value)

\* C13 witness: cond_select has run with b = 0 on different t and f and has
\* returned f
C13_Witness ==
    /\ last.op = "cond_select"
    /\ last.args[1].value = Some(0)
    /\ last.args[2].value = Some(1)
    /\ last.args[3].value = Some(0)
    /\ last.ret[1].value = Some(0)

\* C18: once the drivers have run, the first `public` rows are the public
\* rows on both backends: Generic GateSpecs with the coefficients [1, 0, ..., 0]
\* whose column 0 is the i-th Variable handed to the closure, and witness rows
\* [public_i, 0, ..., 0] with public_i the value of the i-th Variable handed to
\* the closure; no later row is a public row, and verify of the compiled gates
\* does not report IncorrectPublic.
C18_PublicRows ==
    pc # "init" =>
       /\ Len(sys.gates) >= public /\ Len(gen.rows) >= public
       /\ \A i \in 1 .. Len(prov) : prov[i] = "public" <=> i <= public
       /\ \A i \in 1 .. public :
            /\ sys.gates[i].typ = "Generic"
            /\ sys.gates[i].coeffs = <<1, 0, 0, 0, 0, 0, 0, 0, 0, 0>>
            /\ sys.gates[i].row[1] = cvars[i]
            /\ wvars[i].value = Some(gen.rows[i][1])
            /\ \A c \in 2 .. COLUMNS : gen.rows[i][c] = 0
       /\ pc = "compiled" =>
            /\ \A i \in 1 .. public : compiled[i].coeffs[1] = 1
            /\ verify(compiled, gen.rows, public) # "IncorrectPublic"

\* C18 witness: a compiled circuit with two public inputs of different
\* non-zero values, followed by a row of the closure
C18_Witness ==
    /\ pc = "compiled"
    /\ public = 2
    /\ gen.rows[1][1] # 0 /\ gen.rows[2][1] # 0 /\ gen.rows[1][1] # gen.rows[2][1]
    /\ Len(compiled) > public

\* the witness satisfies the Generic constraints of all rows
Satisfied ==
    /\ Len(gen.rows) = Len(sys.gates)
    /\ \A r \in 1 .. Len(sys.gates) :
         sys.gates[r].typ = "Generic" => GenericSat(sys.gates[r].coeffs, gen.rows[r])

\* the witness satisfies the copy constraints: cells sharing a Variable hold
\* the same value
Connected == Cardinality(CellPairs) = Cardinality(CellIndices)

\* C11: every witness of the rows emitted by equals(x1, x2) that satisfies
\* their Generic constraints and the copy constraints has the result cell b
\* in {0,1}, with b = 1 exactly when the values of x1 and x2 are equal.
C11_EqualsSound ==
    (pc = "assigned" /\ Satisfied /\ Connected) =>
       /\ wvars[3].value \in {Some(0), Some(1)}
       /\ wvars[3].value = Some(1) <=> wvars[1].value = wvars[2].value

\* C11 witness: a satisfying witness of the rows of equals on two different
\* Variables that hold different values
C11_Witness ==
    /\ pc = "assigned"
    /\ Satisfied /\ Connected
    /\ cvars[1] # cvars[2]
    /\ wvars[1].value # wvars[2].value
    /\ wvars[3].value = Some(0)

\* C14: sub(add(a, b), b) has the value of a, and the value of sub(x1, x2) is
\* x1 - x2 reduced modulo p, also when x1 - x2 is negative (0 - 2 = p - 2).
C14_SubValue ==
    /\ last.op = "sub" =>
         last.ret[1].value = Some((last.args[1].value[1] - last.args[2].value[1]) % P)
    /\ last.op = "sub_add" =>
         /\ last.ret[2].value = last.args[1].value
         /\ last.ret[2].value = Some((last.ret[1].value[1] - last.args[2].value[1]) % P)

\* C14 witness: a = 4, b = 3: add gives 2 and sub(2, 3) wraps around to 4 = a
C14_Witness ==
    /\ last.op = "sub_add"
    /\ last.args[1].value = Some(P - 1) /\ last.args[2].value = Some(P - 2)
    /\ last.ret[1].value = Some(P - 3)
    /\ last.ret[2].value = Some(P - 1)

\* the field value of the k-th argument and of the k-th returned Var of the
\* last call
Arg(k) == last.args[k].value[1]
Ret(k) == last.ret[k].value[1]

\* C15: for two points with different abscissas (P # Q and P # -Q on the curve)
\* add_group returns in witness mode x3 = s^2 - x1 - x2 and
\* y3 = s (x1 - x3) - y1, s being the slope (y2 - y1) / (x2 - x1) of the chord.
C15_Chord ==
    (last.op = "add_group" /\ last.args[1].value # last.args[3].value) =>
       /\ pc # "panicked"
       /\ \E s \in F :
            /\ (s * (Arg(3) - Arg(1)) - (Arg(4) - Arg(2))) % P = 0
            /\ Ret(1) = (s * s - Arg(1) - Arg(3)) % P
            /\ Ret(2) = (s * (Arg(1) - Ret(1)) - Arg(2)) % P

\* C15 witness: (1, 2) + (3, 1): the slope is 2, the sum (0, 0)
C15_Witness ==
    /\ last.op = "add_group"
    /\ <<Arg(1), Arg(2), Arg(3), Arg(4)>> = <<1, 2, 3, 1>>
    /\ <<Ret(1), Ret(2)>> = <<0, 0>>

\* the last row pushed: on System and on WitnessGenerator
LastGate == sys.gates[Len(sys.gates)]
LastRow == gen.rows[Len(gen.rows)]

\* C16: for a point (x, y) with y # 0, double(zero, P) emits the row of
\* add_group(zero, P, P): | x y x y x3 y3 inf same_x s inf_z x21_inv 0 0 0 0 |
\* (x and y the Variables allocated after the row of the constant zero, inf
\* and the last four cells the Variable zero) with same_x = 1, x21_inv = 0, inf_z = 0 and s = 3 x^2 / (2 y), and returns
\* (s^2 - 2 x, s (x - x3) - y).
C16_Double ==
    (last.op = "double" /\ last.args[2].value # Some(0)) =>
       /\ pc # "panicked"
       /\ Len(gen.rows) = Len(sys.gates)
       /\ LastGate.typ = "CompleteAdd" /\ LastGate.coeffs = <<>>
       /\ \A c \in {1, 3} : LastGate.row[c].index = COLUMNS /\ LastRow[c] = Arg(1)
       /\ \A c \in {2, 4} : LastGate.row[c].index = COLUMNS + 1 /\ LastRow[c] = Arg(2)
       /\ LastGate.row[5] = cvars[1] /\ LastGate.row[6] = cvars[2]
       /\ \A c \in {7, 12, 13, 14, 15} :
            LastGate.row[c] = sys.gates[1].row[1] /\ LastRow[c] = 0
       /\ \E s \in F :
            /\ (s * 2 * Arg(2) - 3 * Arg(1) * Arg(1)) % P = 0
            /\ LastRow = <<Arg(1), Arg(2), Arg(1), Arg(2), Ret(1), Ret(2), 0, 1, s, 0, 0,
                           0, 0, 0, 0>>
            /\ Ret(1) = (s * s - 2 * Arg(1)) % P
            /\ Ret(2) = (s * (Arg(1) - Ret(1)) - Arg(2)) % P

\* C16 witness: the double of (1, 2): the slope is 2, the double (2, 1)
C16_Witness ==
    /\ last.op = "double"
    /\ <<Arg(1), Arg(2)>> = <<1, 2>>
    /\ <<Ret(1), Ret(2)>> = <<2, 1>>
    /\ LastRow[9] = 2

\* the builders are those the closure had made before its last call (c on
\* System, w on WitnessGenerator), and that call has panicked
FailedAt(c, w) ==
    /\ pc = "panicked"
    /\ sys = [c EXCEPT !.failed = TRUE]
    /\ gen = [w EXCEPT !.failed = TRUE]

\* the field values of the Vars the closure allocated as inputs
InputValues(n) == [i \in 1 .. n |-> Arg(i)]

\* C17: endo with length_in_bits not a multiple of 4, endo_scalar with length
\* not a multiple of 4, scalar with length not a multiple of 5 and assert_pack
\* with a number of bits not a multiple of 16 panic in both backends before
\* they allocate a Variable or emit a row: next_variable, the gate list and
\* the witness rows are those before the call.
C17_FailFast ==
    /\ (last.op = "endo" /\ last.args[5] % 4 # 0) =>
          FailedAt(point_inputs(new_System, InputValues(3)).b,
                   point_inputs(new_WitnessGenerator, InputValues(3)).b)
    /\ (last.op = "endo_scalar" /\ last.args[1] % 4 # 0) =>
          FailedAt(new_System, new_WitnessGenerator)
    /\ (last.op = "scalar" /\ last.args[1] % 5 # 0) =>
          FailedAt(new_System, new_WitnessGenerator)
    /\ (last.op = "assert_pack" /\ (Len(last.args) - 1) % 16 # 0) =>
          FailedAt(point_inputs(new_System, InputValues(Len(last.args))).b,
                   point_inputs(new_WitnessGenerator, InputValues(Len(last.args))).b)

\* C17 witness: endo called with length_in_bits = 2 after the row of the
\* constant zero and the three input Variables
C17_Witness ==
    /\ last.op = "endo" /\ last.args[5] = 2
    /\ pc = "panicked"
    /\ sys.next_variable = COLUMNS + 3 /\ Len(sys.gates) = 1 /\ Len(gen.rows) = 1

\* the number of rows the closure's gadget call appended, the closure having
\* pushed the row of the constant zero before
PackRows == (Len(last.args) - 1) \div 16

\* C19: assert_pack(zero, x, bits_lsb) with 16 k bits appends k rows to the
\* builder, k GateSpecs on System and k witness rows on WitnessGenerator;
\* column 1 of the last of them carries x.
C19_PackRows ==
    (last.op = "assert_pack" /\ pc = "main") =>
       /\ Len(sys.gates) = 1 + PackRows
       /\ Len(gen.rows) = 1 + PackRows
       /\ PackRows > 0 =>
            /\ sys.gates[1 + PackRows].row[2].index = COLUMNS
            /\ gen.rows[1 + PackRows][2] = Arg(1)

\* C20: every GateSpec of type Generic emitted by a gadget (assert_eq, and, or,
\* add, sub, equals_old, equals, constant, scale, cond_select) or for a public
\* input has exactly GENERIC_ROW_COEFFS = 10 coefficients, the last five of
\* which are zero.
C20_GenericCoeffs ==
    \A r \in 1 .. Len(sys.gates) :
       sys.gates[r].typ = "Generic" =>
          /\ Len(sys.gates[r].coeffs) = GENERIC_ROW_COEFFS
          /\ \A k \in (SINGLE_GENERIC_COEFFS + 1) .. GENERIC_ROW_COEFFS :
               sys.gates[r].coeffs[k] = 0

\* C21: every wire of a gate returned by System::gates points to a row of the
\* gate list and to a column below PERMUTS, so ConstraintSystem::verify never
\* fails because a wire leaves the first PERMUTS columns.
C21_WiresInRange ==
    pc = "compiled" =>
       /\ Len(compiled) = Len(sys.gates)
       /\ \A r \in 1 .. Len(compiled) :
            /\ Len(compiled[r].wires) = PERMUTS
            /\ \A c \in 1 .. PERMUTS :
                 /\ compiled[r].wires[c].row \in 0 .. (Len(compiled) - 1)
                 /\ compiled[r].wires[c].col \in 0 .. (PERMUTS - 1)
       /\ verify(compiled, gen.rows, public) # "Custom"

\* C21 witness: a compiled circuit of eight rows or more in which a cell of
\* the last row is wired to an earlier row
C21_Witness ==
    /\ pc = "compiled"
    /\ Len(compiled) > PERMUTS
    /\ \E c \in 1 .. PERMUTS : compiled[Len(compiled)].wires[c].row < Len(compiled) - 1

---------------------------------------------------------------------------
(* The cells of the circuit: rows and columns are numbered from 1 here.    *)

AllCells == (1 .. Len(sys.gates)) \X (1 .. COLUMNS)
HighCells == (1 .. Len(sys.gates)) \X ((PERMUTS + 1) .. COLUMNS)
IndexAt(cell) == sys.gates[cell[1]].row[cell[2]].index

\* the cells a variable occupies
Occupied(v) == {cell \in AllCells : IndexAt(cell) = v}

\* the behaviours whose closure allocates the sentinel `zero` first (index 0)
\* and hands it to the gadget
ZeroOps == {"add_group", "double", "assert_add_group", "endo", "scalar_mul"}
ZeroSentinel == IF last.op \in ZeroOps THEN {0} ELSE {}

\* the indices of the Vars the closure hands to its gadget and of those the
\* gadget returns
NumInputs ==
    CASE last.op \in {"endo", "poseidon"} -> 3
      [] last.op \in {"zk", "sub", "none"} -> 0
      [] OTHER -> Len(last.args)
InputIndices ==
    IF last.op \in ZeroOps THEN COLUMNS .. (COLUMNS + NumInputs - 1) ELSE 0 .. (NumInputs - 1)
Returned == {cvars[i].index : i \in 1 .. Len(cvars)}

\* the wired cells in the order of emission, numbered from 1
WiredIndex(k) == sys.gates[((k - 1) \div PERMUTS) + 1].row[((k - 1) % PERMUTS) + 1].index
WiredCell(k) == Wire((k - 1) \div PERMUTS, (k - 1) % PERMUTS)
SameBefore(k) == {j \in 1 .. (k - 1) : WiredIndex(j) = WiredIndex(k)}
SameAll(k) == {j \in 1 .. (Len(sys.gates) * PERMUTS) : WiredIndex(j) = WiredIndex(k)}
Greatest(S) == CHOOSE x \in S : \A y \in S : y <= x

\* the cell that precedes cell k on the cycle of its variable: the previous
\* cell holding the variable, for the first one the last
Preceding(k) == WiredCell(Greatest(IF SameBefore(k) = {} THEN SameAll(k) ELSE SameBefore(k)))

\* C22: in every row the gadgets emit, a column >= PERMUTS holds the caller's
\* `zero` or a Variable that occupies no other cell of the circuit, is not an
\* argument of the gadget and is not returned by it; so a Variable other than
\* `zero` that occupies two or more cells occupies cells of the columns 0..6
\* only, and in the compiled circuit all its cells lie on one cycle of wires.
C22_HighColumns ==
    /\ \A cell \in HighCells :
         \/ IndexAt(cell) \in ZeroSentinel
         \/ /\ Occupied(IndexAt(cell)) = {cell}
            /\ IndexAt(cell) \notin Returned
            /\ IndexAt(cell) \notin InputIndices
    /\ \A cell \in AllCells :
         (IndexAt(cell) \notin ZeroSentinel /\ Occupied(IndexAt(cell)) # {cell}) => cell[2] <= PERMUTS
    /\ pc = "compiled" =>
         \A k \in 1 .. (Len(compiled) * PERMUTS) :
            WiredIndex(k) \notin ZeroSentinel => WireAt(WiredCell(k)) = Preceding(k)

\* C22 witness: a compiled endo circuit of two EndoMul rows: `zero` lies in
\* high columns and the point (xt, yt) occupies cells of several rows
C22_Witness ==
    /\ pc = "compiled"
    /\ last.op = "endo"
    /\ Len(sys.gates) >= 6
    /\ \E cell \in HighCells : IndexAt(cell) = 0
    /\ Cardinality(Occupied(COLUMNS)) >= 2

\* the cells reached from `cell` by following the wires
RECURSIVE OrbitFrom(_, _)
OrbitFrom(cell, seen) ==
    IF cell \in seen THEN seen ELSE OrbitFrom(WireAt(cell), seen \cup {cell})

WiredCells == {WiredCell(k) : k \in 1 .. (Len(sys.gates) * PERMUTS)}

\* C23: the wires of the compiled gates are a permutation of the wired cells
\* (columns 0..6): no two cells store the same wire and every wire is a wired
\* cell; the cycle through a cell consists of the cells that hold the same
\* variable index; a variable with one wired cell is wired to itself.
C23_Permutation ==
    pc = "compiled" =>
       /\ \A k \in 1 .. (Len(compiled) * PERMUTS) : WireAt(WiredCell(k)) \in WiredCells
       /\ Cardinality({WireAt(cell) : cell \in WiredCells}) = Cardinality(WiredCells)
       /\ \A k \in 1 .. (Len(compiled) * PERMUTS) :
            /\ OrbitFrom(WiredCell(k), {}) = {WiredCell(j) : j \in SameAll(k)}
            /\ SameAll(k) = {k} => WireAt(WiredCell(k)) = WiredCell(k)

\* C23 witness: a compiled circuit with a variable at three wired cells and
\* another at one
C23_Witness ==
    /\ pc = "compiled"
    /\ \E k \in 1 .. (Len(compiled) * PERMUTS) : Cardinality(SameAll(k)) >= 3
    /\ \E k \in 1 .. (Len(compiled) * PERMUTS) : SameAll(k) = {k}

\* the position in sys.calls of the self.gate that pushed row r (from 1)
GatePos(r) ==
    CHOOSE p \in 1 .. Len(sys.calls) : sys.calls[p].kind = "gate" /\ sys.calls[p].index = r - 1

\* a completed endo call of k rows: its EndoMul rows are the rows
\* EndoFirst + 1 .. EndoFirst + k, its Zero row is the last row
EndoDone == last.op = "endo" /\ pc \in {"main", "compiled"}
EndoRowCount == last.args[5] \div 4
EndoFirst == Len(sys.gates) - 1 - EndoRowCount
WitnessVar(r, c) == Var(0, Some(gen.rows[r][c]))

PoseidonDone == last.op = "poseidon" /\ pc \in {"main", "compiled"}

\* n full rounds from round r on
RECURSIVE Rounds(_, _, _, _)
Rounds(params, state, r, n) ==
    IF n = 0 THEN state ELSE Rounds(params, full_round(params, state, r)[1], r + 1, n - 1)

PoseidonRows == {r \in 1 .. Len(sys.gates) : sys.gates[r].typ = "Poseidon"}
Offset(r) == (r - 1) * ROUNDS_PER_ROW
RoundConstants == last.args[4].round_constants

ScalarMulDone == last.op = "scalar_mul" /\ pc \in {"main", "compiled"}
First(i) == 3 + 2 * i
Second(i) == 4 + 2 * i
PairCells == (3 .. Len(sys.gates)) \X (1 .. COLUMNS)

\* the cells of the pairs that the claim names
NamedCells ==
    {<<First(i), c>> : i \in 0 .. 50, c \in 1 .. 2}
       \cup {<<First(0), 3>>, <<First(0), 4>>, <<First(0), 5>>, <<First(50), 6>>,
             <<Second(50), 1>>, <<Second(50), 2>>}

\* C27: a completed scalar_mul has appended 1 + 2 * 51 = 103 rows: a
\* CompleteAdd row adding T to itself, whose sum is acc0, then 51 pairs of a
\* VarBaseMul and a Zero row with empty coeffs.  A pair's first row has xt,
\* yt in columns 0, 1; the first pair's has acc0.x, acc0.y, zero in columns
\* 2, 3, 4; the last pair's has the scalar's Variable in column 5; the point
\* returned is columns 0, 1 of the last pair's second row; every other cell
\* of the pairs holds a Variable that occupies no other cell.
C27_ScalarMulRows ==
    ScalarMulDone =>
       /\ Len(sys.gates) = 1 + 103
       /\ Len(gen.rows) = 1 + 103
       /\ sys.gates[2].typ = "CompleteAdd"
       /\ [c \in 1 .. 4 |-> sys.gates[2].row[c].index]
             = <<COLUMNS, COLUMNS + 1, COLUMNS, COLUMNS + 1>>
       /\ \A i \in 0 .. 50 :
            /\ sys.gates[First(i)].typ = "VarBaseMul"
            /\ sys.gates[Second(i)].typ = "Zero"
            /\ sys.gates[First(i)].coeffs = <<>>
            /\ sys.gates[Second(i)].coeffs = <<>>
            /\ sys.gates[First(i)].row[1].index = COLUMNS
            /\ sys.gates[First(i)].row[2].index = COLUMNS + 1
       /\ SubSeq(sys.gates[First(0)].row, 3, 4) = SubSeq(sys.gates[2].row, 5, 6)
       /\ sys.gates[First(0)].row[5].index = 0
       /\ sys.gates[First(50)].row[6].index = COLUMNS + 2
       /\ cvars = SubSeq(sys.gates[Second(50)].row, 1, 2)
       /\ \A cell \in PairCells \ NamedCells : Occupied(IndexAt(cell)) = {cell}

\* C27 witness: a completed scalar_mul, compiled
C27_Witness ==
    /\ ScalarMulDone
    /\ pc = "compiled"
    /\ Len(sys.gates) > 100
    /\ last.args[3].value = Some(1)

\* the closure of AssertAddGroupTemplate has run: row 1 is its constant row,
\* row 2 the row of add_group, row 3 the row of assert_add_group on the same
\* points and the sum add_group returned
AssertDone == last.op = "assert_add_group" /\ pc \in {"main", "compiled"}

\* the self.var calls made while the circuit had n rows
VarCallsAt(n) == {k \in 1 .. Len(sys.calls) : sys.calls[k].kind = "var" /\ sys.calls[k].count = n}

\* the layout [x1, y1, x2, y2, x3, y3, inf, same_x, s, inf_z, x21_inv, 0, 0,
\* 0, 0] of row r, whose call allocated same_x, x21_inv, s, inf_z from the
\* index `base` on
CompleteAddLayout(r, base, x3, y3) ==
    /\ sys.gates[r].typ = "CompleteAdd"
    /\ sys.gates[r].coeffs = <<>>
    /\ [c \in 1 .. COLUMNS |-> sys.gates[r].row[c].index]
          = <<COLUMNS, COLUMNS + 1, COLUMNS + 2, COLUMNS + 3, x3, y3, 0,
              base, base + 2, base + 3, base + 1, 0, 0, 0, 0>>

\* C28: add_group and assert_add_group each append one CompleteAdd row with
\* empty coeffs and the layout [x1, y1, x2, y2, x3, y3, inf, same_x, s,
\* inf_z, x21_inv, 0, 0, 0, 0], inf and the last four cells being zero;
\* add_group allocates six Variables, x3 and y3 the last two, and returns
\* these; assert_add_group allocates four and places the caller's x3, y3; the
\* witness rows of the two agree.
C28_CompleteAddRows ==
    AssertDone =>
       /\ Len(sys.gates) = 3
       /\ Len(gen.rows) = 3
       /\ Cardinality(VarCallsAt(1)) = 4 + 6
       /\ Cardinality(VarCallsAt(2)) = 4
       /\ VarCallsAt(3) = {}
       /\ CompleteAddLayout(2, COLUMNS + 4, COLUMNS + 8, COLUMNS + 9)
       /\ CompleteAddLayout(3, COLUMNS + 10, COLUMNS + 8, COLUMNS + 9)
       /\ [i \in 1 .. 2 |-> cvars[i].index] = <<COLUMNS + 8, COLUMNS + 9>>
       /\ sys.next_variable = COLUMNS + 14
       /\ gen.rows[3] = gen.rows[2]

\* C28 witness: the two rows for the sum of two points of different abscissa
C28_Witness ==
    /\ AssertDone
    /\ Len(sys.gates) = 3
    /\ gen.rows[3][1] # gen.rows[3][3]
    /\ gen.rows[3][5] # gen.rows[3][6]

\* the columns (from 1) of row r that hold neither an operand nor a result
FillerColumns(r) ==
    (4 .. COLUMNS)
       \cup (IF prov[r] \in {"assert_eq", "scale"} THEN {3} ELSE {})
       \cup (IF prov[r] = "constant" THEN {2, 3} ELSE {})

\* C29: in a Generic row emitted by assert_eq, and, or, add, sub, equals,
\* constant, scale or cond_select, the columns 3..14, column 2 of the rows of
\* assert_eq and scale and columns 1, 2 of the rows of constant hold a
\* Variable allocated for that cell: its index is in no other cell of the
\* circuit and is not handed to the closure, and its witness value is 0.
C29_Fillers ==
    \A r \in 1 .. Len(sys.gates) :
       prov[r] # "public" =>
          /\ sys.gates[r].typ = "Generic"
          /\ \A c \in FillerColumns(r) :
               /\ Occupied(IndexAt(<<r, c>>)) = {<<r, c>>}
               /\ IndexAt(<<r, c>>) \notin Returned
               /\ r <= Len(gen.rows) => gen.rows[r][c] = 0

\* C29 witness: rows of constant, scale and assert_eq in one circuit, the
\* witness complete
C29_Witness ==
    /\ {"constant", "scale", "assert_eq"} \subseteq {prov[r] : r \in 1 .. Len(prov)}
    /\ Len(gen.rows) = Len(sys.gates)
    /\ pc = "main"

\* an order of iteration that visits every other element first
Interleaved(s) ==
    [i \in 1 .. Len(s) |->
       IF i <= (Len(s) + 1) \div 2 THEN s[2 * i - 1] ELSE s[2 * (i - (Len(s) + 1) \div 2)]]

\* the iteration orders compared
Orders(S) == iteration_orders(S) \cup {Interleaved(ascending(S))}

\* C30: the gate list System::gates() returns does not depend on the order in
\* which the closing pass iterates first_cell: every order gives the list the
\* call returned, a further call on the same System gives that list again,
\* and the call leaves next_variable and the GateSpec list as they were.
C30_OrderIndependent ==
    [][(pc = "main" /\ pc' = "compiled") =>
          /\ sys' = sys
          /\ \A order \in Orders(first_cell_keys(sys')) : gates(sys', order) = compiled']_vars

\* C30 witness: a compiled circuit in which two variables that first occur
\* in one row both occur again later, so that the closing pass writes two
\* wires of that row
C30_Witness ==
    /\ pc = "compiled"
    /\ \E r \in 1 .. Len(compiled) : \E c, d \in 1 .. PERMUTS :
         /\ c < d
         /\ compiled[r].wires[c].row > r - 1
         /\ compiled[r].wires[d].row > r - 1
    /\ Cardinality(Orders(first_cell_keys(sys))) = 3

====
